---- MODULE Spec2Model ----
(***************************************************************************)
(* A model of the semfio_mist client library: the credential manager       *)
(* (Token), the transport client (API) and the entity handles (Site,       *)
(* WLAN, AP), run against a model of the Mist cloud controller.            *)
(*                                                                         *)
(* Python objects are records holding the instance __dict__ (a "class"     *)
(* field names the class); an attribute that was never assigned is absent  *)
(* from the record's domain.  A call's outcome is a record                 *)
(* [raised, value]: raised is "no" or the name of the exception.           *)
(***************************************************************************)
EXTENDS Integers, Sequences, FiniteSets, TLC

VARIABLES
    environ,    \* os.environ (the entries the library reads)
    config,     \* Config.data
    cloud,      \* the controller: valid tokens, sites, wlans, id counters
    tok,        \* a Token instance used on its own
    api,        \* the API instance
    site,       \* the Site instance
    wlan,       \* the WLAN instance
    ap,         \* the AP instances, by the name the script gives each
    apcls,      \* the attributes of class AP that its instances share
    actor,      \* two scripts that each run Site.create step by step
    last,       \* the most recent operation: its calls and its outcome
    prev        \* a summary of the operation before it

vars == <<environ, config, cloud, tok, api, site, wlan, ap, apcls, actor, last, prev>>

(***************************************************************************)
(* Bounds of the model.                                                    *)
(***************************************************************************)
MaxTokens == 2      \* ephemeral tokens the controller hands out
MaxIds == 2         \* entity identifiers the controller hands out

(***************************************************************************)
(* Python values.                                                          *)
(***************************************************************************)
None == "None"
PyNone == [kind |-> "None"]
PyBool(b) == [kind |-> "bool", val |-> b]
PyDict(d) == [kind |-> "dict", val |-> d]
PyList(s) == [kind |-> "list", val |-> s]

Ok(v) == [raised |-> "no", value |-> v]
Raise(e) == [raised |-> e, value |-> PyNone]

NoObject == [class |-> "NoObject"]

\* obj.name where the class declares a default for name
Attr(obj, name, default) == IF name \in DOMAIN obj THEN obj[name] ELSE default

\* the record r with field f set to v (f may be new)
SetAttr(r, f, v) == [k \in DOMAIN r \cup {f} |-> IF k = f THEN v ELSE r[k]]

(***************************************************************************)
(* HTTP: a response is [status, text]; text is the body as json.loads      *)
(* sees it: not decodable, or a decoded document.                          *)
(***************************************************************************)
NotJson == [json |-> FALSE]
JsonText(doc) == [json |-> TRUE, doc |-> doc]

json_loads(text) == IF text.json THEN Ok(text.doc) ELSE Raise("JSONDecodeError")

MasterEnv == "M_ENV"
MasterCfg == "M_CFG"
Masters == {MasterEnv, MasterCfg}
TokenKeys == <<"k1", "k2", "k3", "k4">>
TokenIds == <<"t1", "t2", "t3", "t4">>
EntityIds == <<"e1", "e2", "e3", "e4">>

TokenUrl == "https://api.mist.com/api/v1/self/apitokens"
UrlUS == "https://api.mist.com/api/v1/"
UrlEU == "https://api.eu.mist.com/api/v1/"

Authorization(secret) == [scheme |-> "Token", secret |-> secret]
Headers(secret) ==
    [ContentType |-> "application/json", Authorization |-> Authorization(secret)]

\* json.dumps(body): the text json.loads decodes back to body
json_dumps(body) == JsonText(body)
\* a request sent without a JSON body
NoData == [json |-> FALSE]

Request(verb, base, path, headers, data) ==
    [verb |-> verb, base |-> base, path |-> path, headers |-> headers, data |-> data]

\* one entry of an operation's call log
Call(req, resp) == [req |-> req, resp |-> resp]

ErrorStatuses == {404}
ErrorTexts ==
    { JsonText(PyDict([message |-> "error"])),
      JsonText(PyDict([detail |-> "error"])),
      NotJson }
\* what the controller may answer to any request it does not carry out
ErrorResponses == { [status |-> s, text |-> t] : s \in ErrorStatuses, t \in ErrorTexts }

\* the responses of an endpoint whose state is not modelled
AnyStatuses == {200, 204, 400, 404}
AnyTexts == ErrorTexts \cup { JsonText(PyList(<<>>)) }
AnyResponses == { [status |-> s, text |-> t] : s \in AnyStatuses, t \in AnyTexts }

\* the controller accepts a master token or an ephemeral token it still holds
Authorized(c, req) ==
    /\ req.headers.Authorization.scheme = "Token"
    /\ \/ req.headers.Authorization.secret \in Masters
       \/ \E t \in c.tokens : t.key = req.headers.Authorization.secret

(***************************************************************************)
(* The controller's token endpoint.  An answer is [resp, cloud]: the       *)
(* response and the controller's state after the request.                  *)
(***************************************************************************)
CloudCreateToken(c, req) ==
    { [resp |-> r, cloud |-> c] : r \in ErrorResponses }
    \cup
    IF Authorized(c, req) /\ c.next_token <= MaxTokens
    THEN LET t == [id |-> TokenIds[c.next_token], key |-> TokenKeys[c.next_token]]
         IN  { [resp |-> [status |-> 200, text |-> JsonText(PyDict(t))],
                cloud |-> [c EXCEPT !.tokens = @ \cup {t},
                                    !.next_token = @ + 1]] }
    ELSE {}

\* DELETE self/apitokens/<id>: the controller may answer 200 for an id it no
\* longer holds (an idempotent delete) or refuse it
CloudDeleteToken(c, req, id) ==
    { [resp |-> r, cloud |-> c] : r \in ErrorResponses }
    \cup
    IF Authorized(c, req)
    THEN { [resp |-> [status |-> 200, text |-> JsonText(PyDict([ok |-> "true"]))],
            cloud |-> [c EXCEPT !.tokens = { t \in @ : t.id # id }]] }
    ELSE {}

(***************************************************************************)
(* Token                                                                   *)
(***************************************************************************)
\* Token.__init__: the outcome holds the new instance
Token_init(env, cfg) ==
    IF "MIST_TOKEN" \in DOMAIN env
    THEN Ok([class |-> "Token", MASTER_TOKEN |-> env.MIST_TOKEN])
    ELSE IF "token" \in DOMAIN cfg
         THEN Ok([class |-> "Token", MASTER_TOKEN |-> cfg.token])
         ELSE Raise("KeyError")

get_tmp_token_request(self) ==
    Request("POST", TokenUrl, <<>>, Headers(self.MASTER_TOKEN), NoData)

\* a variant that keeps the key of the new token and forgets its id
get_tmp_token_keyonly(self, resp) ==
    IF resp.status = 200
    THEN LET p == json_loads(resp.text) IN
         IF p.raised # "no" THEN [self |-> self, out |-> p]
         ELSE IF p.value.kind # "dict" THEN [self |-> self, out |-> Raise("TypeError")]
         ELSE IF "key" \notin DOMAIN p.value.val
              THEN [self |-> self, out |-> Raise("KeyError")]
         ELSE [self |-> SetAttr(self, "tmp_token_key", p.value.val.key),
               out |-> Ok(PyNone)]
    ELSE [self |-> self, out |-> Raise("ValueError")]

\* Token.get_tmp_token after session.post answered resp: [self, out]
get_tmp_token(self, resp) ==
    IF resp.status = 200
    THEN LET p == json_loads(resp.text) IN
         IF p.raised # "no" THEN [self |-> self, out |-> p]
         ELSE IF p.value.kind # "dict" THEN [self |-> self, out |-> Raise("TypeError")]
         ELSE IF "key" \notin DOMAIN p.value.val
              THEN [self |-> self, out |-> Raise("KeyError")]
         ELSE LET s1 == SetAttr(self, "tmp_token_key", p.value.val.key) IN
              IF "id" \notin DOMAIN p.value.val
              THEN [self |-> s1, out |-> Raise("KeyError")]
              ELSE [self |-> SetAttr(s1, "tmp_token_id", p.value.val.id),
                    out |-> Ok(PyNone)]
    ELSE [self |-> self, out |-> Raise("ValueError")]

\* Token.delete_tmp_token: whether the call is made at all
delete_tmp_token_calls(self) == "tmp_token_id" \in DOMAIN self

\* a variant that names the token by its key
delete_tmp_token_request_by_key(self) ==
    Request("DELETE", TokenUrl, <<self.tmp_token_key>>, Headers(self.MASTER_TOKEN), NoData)

delete_tmp_token_request(self) ==
    Request("DELETE", TokenUrl, <<self.tmp_token_id>>, Headers(self.MASTER_TOKEN), NoData)

\* a variant that ignores the missing tmp_token_id
delete_tmp_token_missing_silent == Ok(PyNone)

\* Token.delete_tmp_token when there is no tmp_token_id
delete_tmp_token_missing == Raise("ValueError")

\* Token.delete_tmp_token after session.delete answered resp
delete_tmp_token(self, resp) ==
    IF resp.status = 200 THEN Ok(PyNone) ELSE Raise("ValueError")

(***************************************************************************)
(* API                                                                     *)
(***************************************************************************)
\* a variant that lets status 400 through as a success
verify_response_gt(response) ==
    LET p == json_loads(response.text) IN
    IF p.raised # "no" THEN p
    ELSE IF response.status > 400 THEN Ok(PyNone)
    ELSE Ok(p.value)

\* _verify_response: the body is decoded before the status is looked at
verify_response(response) ==
    LET p == json_loads(response.text) IN
    IF p.raised # "no" THEN p
    ELSE IF response.status >= 400 THEN Ok(PyNone)
    ELSE Ok(p.value)

\* _verify_delete_response: the error branch reads response_text['message']
verify_delete_response(response) ==
    LET p == json_loads(response.text) IN
    IF p.raised # "no" THEN p
    ELSE IF response.status # 200
         THEN IF p.value.kind # "dict" THEN Raise("TypeError")
              ELSE IF "message" \notin DOMAIN p.value.val THEN Raise("KeyError")
              ELSE Ok(PyBool(FALSE))
    ELSE Ok(PyBool(TRUE))

\* the request API.get / delete sends for call_url
api_request(self, verb, call_url) ==
    Request(verb, self.mist_cloud_url, call_url, self.headers, NoData)

\* the request API.post / put sends for call_url and body
api_request_body(self, verb, call_url, body) ==
    Request(verb, self.mist_cloud_url, call_url, self.headers, json_dumps(body))

\* a variant that prefers the configuration document
org_id_lookup_config_first(env, cfg) ==
    IF "org_id" \in DOMAIN cfg THEN Ok(cfg.org_id)
    ELSE IF "MIST_ORG" \in DOMAIN env THEN Ok(env.MIST_ORG)
    ELSE Raise("KeyError")

\* the organization identifier API.__init__ resolves
org_id_lookup(env, cfg) ==
    IF "MIST_ORG" \in DOMAIN env THEN Ok(env.MIST_ORG)
    ELSE IF "org_id" \in DOMAIN cfg THEN Ok(cfg.org_id)
    ELSE Raise("KeyError")

\* a variant whose headers carry the master token
api_object_master(t, org, region) ==
    [class |-> "API",
     session |-> "open",
     mist_token |-> t,
     org_id |-> org,
     headers |-> Headers(t.MASTER_TOKEN),
     mist_cloud_url |-> IF region = "EU" THEN UrlEU ELSE UrlUS]

\* the instance API.__init__ leaves once the token t was acquired
api_object(t, org, region) ==
    [class |-> "API",
     session |-> "open",
     mist_token |-> t,
     org_id |-> org,
     headers |-> Headers(t.tmp_token_key),
     mist_cloud_url |-> IF region = "EU" THEN UrlEU ELSE UrlUS]

(***************************************************************************)
(* The record of an operation.                                             *)
(***************************************************************************)
\* obj: the instance the operation ran on, as the operation left it
Op(name, calls, out, obj) == [op |-> name, calls |-> calls, out |-> out, obj |-> obj]
NoOp == Op("none", <<>>, Ok(PyNone), NoObject)

\* the identifier an operation returned, None when it returned none
Ident(out) ==
    IF out.value.kind = "dict" /\ "id" \in DOMAIN out.value.val
    THEN out.value.val.id ELSE None

Verbs(calls) == [i \in DOMAIN calls |-> calls[i].req.verb]

\* what is kept of the operation before the last one
Summary(o) ==
    [op |-> o.op, raised |-> o.out.raised, ident |-> Ident(o.out),
     verbs |-> Verbs(o.calls)]

Record(name, calls, out, obj) ==
    /\ last' = Op(name, calls, out, obj)
    /\ prev' = Summary(last)

\* the record of an operation with its argument and the log records it wrote
RecordWith(name, calls, out, obj, args, log) ==
    /\ last' = [op |-> name, calls |-> calls, out |-> out, obj |-> obj,
                args |-> args, log |-> log]
    /\ prev' = Summary(last)

(***************************************************************************)
(* Class AP before any instance is built.                                  *)
(***************************************************************************)
\* the names the script gives its AP instances
ApHandles == {"a1", "a2"}
NoAPs == [h \in ApHandles |-> NoObject]

\* an empty dict; keys are added as fields
EmptyDict == [dict |-> TRUE]

\* the class attributes map = {} and radio_configs = {}: one dict each,
\* shared by every instance that does not rebind the attribute
APClass == [map |-> EmptyDict, radio_configs |-> EmptyDict]

\* a script and its Site handle: pc is "none" before the handle is built,
\* "ready" once it is, "probed" between the probe of create() and its POST,
\* "done" when create() has returned; calls and out are those of create();
\* alone says that no other create() was under way during this one
Actors == {"p1", "p2"}
NoActor == [pc |-> "none", self |-> NoObject, calls |-> <<>>, out |-> Ok(PyNone),
            alone |-> TRUE]
NoActors == [p \in Actors |-> NoActor]

(***************************************************************************)
(* Initial states.                                                         *)
(***************************************************************************)
Environs ==
    { [PATH |-> "/bin"],
      [PATH |-> "/bin", MIST_TOKEN |-> MasterEnv],
      [PATH |-> "/bin", MIST_ORG |-> "o_env"],
      [PATH |-> "/bin", MIST_TOKEN |-> MasterEnv, MIST_ORG |-> "o_env"] }

Configs ==
    { [site |-> [name |-> "HQ"]],
      [site |-> [name |-> "HQ"], token |-> MasterCfg],
      [site |-> [name |-> "HQ"], org_id |-> "o_cfg"],
      [site |-> [name |-> "HQ"], token |-> MasterCfg, org_id |-> "o_cfg"] }

CloudInit ==
    [tokens |-> {}, next_token |-> 1, sites |-> <<>>, wlans |-> <<>>, next_id |-> 1,
     devices |-> <<>>, settings |-> <<>>]

Init ==
    /\ environ \in Environs
    /\ config \in Configs
    /\ cloud = CloudInit
    /\ tok = NoObject
    /\ api = NoObject
    /\ site = NoObject
    /\ wlan = NoObject
    /\ ap = NoAPs
    /\ apcls = APClass
    /\ actor = NoActors
    /\ last = NoOp
    /\ prev = Summary(NoOp)

(***************************************************************************)
(* Token used on its own.                                                  *)
(***************************************************************************)
Token_construct ==
    LET r == Token_init(environ, config) IN
    /\ tok' = IF r.raised = "no" THEN r.value ELSE tok
    /\ Record("Token.__init__", <<>>, IF r.raised = "no" THEN Ok(PyNone) ELSE r,
              IF r.raised = "no" THEN r.value ELSE NoObject)
    /\ UNCHANGED <<environ, config, actor, cloud, api, site, wlan, ap, apcls>>

Token_get_tmp_token ==
    /\ tok.class = "Token"
    /\ LET req == get_tmp_token_request(tok) IN
       \E a \in CloudCreateToken(cloud, req) :
          LET r == get_tmp_token(tok, a.resp) IN
          /\ tok' = r.self
          /\ cloud' = a.cloud
          /\ Record("Token.get_tmp_token", <<Call(req, a.resp)>>, r.out, r.self)
    /\ UNCHANGED <<environ, config, actor, api, site, wlan, ap, apcls>>

Token_delete_tmp_token ==
    /\ tok.class = "Token"
    /\ IF delete_tmp_token_calls(tok)
       THEN LET req == delete_tmp_token_request(tok) IN
            \E a \in CloudDeleteToken(cloud, req, tok.tmp_token_id) :
               /\ cloud' = a.cloud
               /\ Record("Token.delete_tmp_token", <<Call(req, a.resp)>>,
                         delete_tmp_token(tok, a.resp), tok)
       ELSE /\ cloud' = cloud
            /\ Record("Token.delete_tmp_token", <<>>, delete_tmp_token_missing, tok)
    /\ UNCHANGED <<environ, config, actor, tok, api, site, wlan, ap, apcls>>

(***************************************************************************)
(* API.__init__ and API.__exit__                                           *)
(***************************************************************************)
API_init ==
    /\ api.class = "NoObject"
    /\ \E region \in {"", "EU"} :
       LET t0 == Token_init(environ, config) IN
       IF t0.raised # "no"
       THEN /\ Record("API.__init__", <<>>, t0, NoObject)
            /\ UNCHANGED <<cloud, api>>
       ELSE LET req == get_tmp_token_request(t0.value) IN
            \E a \in CloudCreateToken(cloud, req) :
               LET r == get_tmp_token(t0.value, a.resp)
                   org == org_id_lookup(environ, config)
                   out == IF r.out.raised # "no" THEN r.out
                          ELSE IF org.raised # "no" THEN org
                          ELSE Ok(PyNone)
               IN  /\ cloud' = a.cloud
                   /\ api' = IF out.raised = "no"
                             THEN api_object(r.self, org.value, region)
                             ELSE api
                   /\ Record("API.__init__", <<Call(req, a.resp)>>, out, r.self)
    /\ UNCHANGED <<environ, config, actor, tok, site, wlan, ap, apcls>>

API_exit ==
    /\ api.class = "API"
    /\ IF delete_tmp_token_calls(api.mist_token)
       THEN LET req == delete_tmp_token_request(api.mist_token) IN
            \E a \in CloudDeleteToken(cloud, req, api.mist_token.tmp_token_id) :
               LET r == delete_tmp_token(api.mist_token, a.resp) IN
               /\ cloud' = a.cloud
               /\ api' = IF r.raised = "no" THEN [api EXCEPT !.session = "closed"]
                         ELSE api
               /\ Record("API.__exit__", <<Call(req, a.resp)>>, r, api.mist_token)
       ELSE /\ UNCHANGED <<cloud, api>>
            /\ Record("API.__exit__", <<>>, delete_tmp_token_missing, api.mist_token)
    /\ UNCHANGED <<environ, config, actor, tok, site, wlan, ap, apcls>>

(***************************************************************************)
(* API.get / post / put / delete on an endpoint whose state is not         *)
(* modelled (GET self, ...).                                               *)
(***************************************************************************)
RawPath == <<"self">>
RawBody == PyDict([name |-> "n"])

API_get ==
    /\ api.class = "API"
    /\ \E resp \in AnyResponses :
          Record("API.get", <<Call(api_request(api, "GET", RawPath), resp)>>,
                 verify_response(resp), api)
    /\ UNCHANGED <<environ, config, actor, cloud, tok, api, site, wlan, ap, apcls>>

API_post ==
    /\ api.class = "API"
    /\ \E resp \in AnyResponses :
          Record("API.post", <<Call(api_request_body(api, "POST", RawPath, RawBody), resp)>>,
                 verify_response(resp), api)
    /\ UNCHANGED <<environ, config, actor, cloud, tok, api, site, wlan, ap, apcls>>

API_put ==
    /\ api.class = "API"
    /\ \E resp \in AnyResponses :
          Record("API.put", <<Call(api_request_body(api, "PUT", RawPath, RawBody), resp)>>,
                 verify_response(resp), api)
    /\ UNCHANGED <<environ, config, actor, cloud, tok, api, site, wlan, ap, apcls>>

API_delete ==
    /\ api.class = "API"
    /\ \E resp \in AnyResponses :
          Record("API.delete", <<Call(api_request(api, "DELETE", RawPath), resp)>>,
                 verify_delete_response(resp), api)
    /\ UNCHANGED <<environ, config, actor, cloud, tok, api, site, wlan, ap, apcls>>

NextToken ==
    \/ Token_construct
    \/ Token_get_tmp_token
    \/ Token_delete_tmp_token

SpecToken == Init /\ [][NextToken]_vars

NextApi ==
    \/ API_init
    \/ API_exit
    \/ API_get
    \/ API_post
    \/ API_put
    \/ API_delete

SpecApi == Init /\ [][NextApi]_vars

(***************************************************************************)
(* The controller's site endpoints.  cloud.sites is the listing of the     *)
(* organization the client works in, in the order the controller lists it. *)
(***************************************************************************)
CloudListSites(c, req) ==
    { [resp |-> r, cloud |-> c] : r \in ErrorResponses }
    \cup
    IF Authorized(c, req)
    THEN { [resp |-> [status |-> 200, text |-> JsonText(PyList(c.sites))], cloud |-> c] }
    ELSE {}

\* POST orgs/<org_id>/sites: the new record is the body with the new id
CloudCreateSite(c, req) ==
    { [resp |-> r, cloud |-> c] : r \in ErrorResponses }
    \cup
    IF Authorized(c, req) /\ c.next_id <= MaxIds
    THEN LET rec == SetAttr(json_loads(req.data).value.val, "id", EntityIds[c.next_id])
         IN  { [resp |-> [status |-> 200, text |-> JsonText(PyDict(rec))],
                cloud |-> [c EXCEPT !.sites = Append(@, rec), !.next_id = @ + 1]] }
    ELSE {}

RemoveId(seq, id) == SelectSeq(seq, LAMBDA e : e.id # id)

\* DELETE sites/<site_id>
CloudDeleteSite(c, req, id) ==
    { [resp |-> r, cloud |-> c] : r \in ErrorResponses }
    \cup
    IF Authorized(c, req) /\ \E i \in DOMAIN c.sites : c.sites[i].id = id
    THEN { [resp |-> [status |-> 200, text |-> JsonText(PyDict([ok |-> "true"]))],
            cloud |-> [c EXCEPT !.sites = RemoveId(@, id)]] }
    ELSE {}

(***************************************************************************)
(* Site                                                                    *)
(***************************************************************************)
\* the index of the first record of seq whose field key equals v, 0 if none
FirstMatch(seq, key, v) ==
    IF \E i \in DOMAIN seq : seq[i][key] = v
    THEN CHOOSE i \in DOMAIN seq :
            /\ seq[i][key] = v
            /\ \A j \in 1..(i - 1) : seq[j][key] # v
    ELSE 0

\* the attributes Site._does_exist_on_cloud copies from the matching record
site_adopt(self, rec) ==
    LET s1 == SetAttr(self, "site_id", rec.id)
        s2 == SetAttr(s1, "timezone", Attr(rec, "timezone", None))
        s3 == SetAttr(s2, "country_code", Attr(rec, "country_code", None))
        s4 == SetAttr(s3, "address", Attr(rec, "address", None))
        s5 == SetAttr(s4, "lat", IF "latlng" \in DOMAIN rec THEN rec.latlng.lat ELSE None)
    IN  SetAttr(s5, "lng", IF "latlng" \in DOMAIN rec THEN rec.latlng.lng ELSE None)

\* a variant whose scan never matches
site_does_exist_on_cloud_never(self, got) ==
    IF got.raised # "no" THEN [self |-> self, out |-> got]
    ELSE IF got.value.kind # "list" THEN [self |-> self, out |-> Raise("TypeError")]
    ELSE [self |-> self, out |-> Ok(PyBool(FALSE))]

\* Site._does_exist_on_cloud given what api.get returned: [self, out]
site_does_exist_on_cloud(self, got) ==
    IF got.raised # "no" THEN [self |-> self, out |-> got]
    ELSE IF got.value.kind # "list" THEN [self |-> self, out |-> Raise("TypeError")]
    ELSE LET i == FirstMatch(got.value.val, "name", self.name) IN
         IF i = 0 THEN [self |-> self, out |-> Ok(PyBool(FALSE))]
         ELSE [self |-> site_adopt(self, got.value.val[i]), out |-> Ok(PyBool(TRUE))]

site_list_request(a, self) == api_request(a, "GET", <<"orgs", self.org_id, "sites">>)

\* the probe as a whole: the listing GET, then the scan
SiteProbeRuns(self, c, a) ==
    { LET p == site_does_exist_on_cloud(self, verify_response(ans.resp)) IN
      [self |-> p.self, out |-> p.out, cloud |-> ans.cloud,
       calls |-> <<Call(site_list_request(a, self), ans.resp)>>]
      : ans \in CloudListSites(c, site_list_request(a, self)) }

AddIf(body, cond, key, v) == IF cond THEN SetAttr(body, key, v) ELSE body

\* a variant that leaves the timezone out of the payload
site_body_no_timezone(self) ==
    LET b1 == [name |-> self.name]
        b3 == AddIf(b1, "country_code" \in DOMAIN self, "country_code",
                    Attr(self, "country_code", None))
    IN  AddIf(b3, "address" \in DOMAIN self, "address", Attr(self, "address", None))

\* the creation payload of Site.create
site_body(self) ==
    LET b1 == [name |-> self.name]
        b2 == AddIf(b1, "timezone" \in DOMAIN self, "timezone", Attr(self, "timezone", None))
        b3 == AddIf(b2, "country_code" \in DOMAIN self, "country_code",
                    Attr(self, "country_code", None))
        b4 == AddIf(b3, "address" \in DOMAIN self, "address", Attr(self, "address", None))
        b5 == AddIf(b4, "lat" \in DOMAIN self /\ "lng" \in DOMAIN self, "latlng",
                    [lat |-> Attr(self, "lat", None), lng |-> Attr(self, "lng", None)])
        b6 == AddIf(b5, "rf_template_id" \in DOMAIN self, "rftemplate_id",
                    Attr(self, "rf_template_id", None))
    IN  AddIf(b6, "sitegroup_ids" \in DOMAIN self, "sitegroup_ids",
              Attr(self, "sitegroup_ids", None))

\* Site.create once the POST returned posted: [self, out]
site_adopt_created(self, posted) ==
    IF posted.raised # "no" THEN [self |-> self, out |-> posted]
    ELSE IF posted.value.kind = "None" THEN [self |-> self, out |-> Raise("TypeError")]
    ELSE IF posted.value.kind # "dict" THEN [self |-> self, out |-> Raise("TypeError")]
    ELSE IF "id" \notin DOMAIN posted.value.val THEN [self |-> self, out |-> Raise("KeyError")]
    ELSE [self |-> SetAttr(self, "site_id", posted.value.val.id), out |-> posted]

\* what Site.create returns when the site is already there
site_existing(self) == Ok(PyDict([id |-> Attr(self, "site_id", None)]))

site_create_request(a, self) ==
    api_request_body(a, "POST", <<"orgs", self.org_id, "sites">>, PyDict(site_body(self)))

\* a variant that takes a handle holding a site_id for an existing site
SiteCreateRuns_trusts_local_id(self, c, a) ==
    UNION { IF p.out.raised # "no" THEN { p }
            ELSE IF p.out.value.val \/ "site_id" \in DOMAIN p.self
                 THEN { [p EXCEPT !.out = site_existing(p.self)] }
                 ELSE { LET r == site_adopt_created(p.self, verify_response(ans.resp)) IN
                        [self |-> r.self, out |-> r.out, cloud |-> ans.cloud,
                         calls |-> Append(p.calls, Call(site_create_request(a, p.self), ans.resp))]
                        : ans \in CloudCreateSite(p.cloud, site_create_request(a, p.self)) }
            : p \in SiteProbeRuns(self, c, a) }

SiteCreateRuns(self, c, a) ==
    UNION { IF p.out.raised # "no" THEN { p }
            ELSE IF p.out.value.val
                 THEN { [p EXCEPT !.out = site_existing(p.self)] }
                 ELSE { LET r == site_adopt_created(p.self, verify_response(ans.resp)) IN
                        [self |-> r.self, out |-> r.out, cloud |-> ans.cloud,
                         calls |-> Append(p.calls, Call(site_create_request(a, p.self), ans.resp))]
                        : ans \in CloudCreateSite(p.cloud, site_create_request(a, p.self)) }
            : p \in SiteProbeRuns(self, c, a) }

\* Site.__delete__: writes a log record
site_dunder_delete(self) == self

site_delete_request(a, self) ==
    api_request(a, "DELETE", <<"sites", Attr(self, "site_id", None)>>)

\* a variant that reports success when the site is absent
SiteDeleteRuns_absent_true(self, c, a) ==
    UNION { IF p.out.raised # "no" THEN { p }
            ELSE IF ~p.out.value.val
                 THEN { [p EXCEPT !.out = Ok(PyBool(TRUE))] }
                 ELSE { LET d == verify_delete_response(ans.resp) IN
                        [self |-> IF d.raised = "no" THEN site_dunder_delete(p.self) ELSE p.self,
                         out |-> d, cloud |-> ans.cloud,
                         calls |-> Append(p.calls, Call(site_delete_request(a, p.self), ans.resp))]
                        : ans \in CloudDeleteSite(p.cloud, site_delete_request(a, p.self),
                                                  Attr(p.self, "site_id", None)) }
            : p \in SiteProbeRuns(self, c, a) }

SiteDeleteRuns(self, c, a) ==
    UNION { IF p.out.raised # "no" THEN { p }
            ELSE IF ~p.out.value.val
                 THEN { [p EXCEPT !.out = Ok(PyBool(FALSE))] }
                 ELSE { LET d == verify_delete_response(ans.resp) IN
                        [self |-> IF d.raised = "no" THEN site_dunder_delete(p.self) ELSE p.self,
                         out |-> d, cloud |-> ans.cloud,
                         calls |-> Append(p.calls, Call(site_delete_request(a, p.self), ans.resp))]
                        : ans \in CloudDeleteSite(p.cloud, site_delete_request(a, p.self),
                                                  Attr(p.self, "site_id", None)) }
            : p \in SiteProbeRuns(self, c, a) }

\* what geocoder.google and the Google timezone lookup may give
GeoResults ==
    { [lat |-> "45.5", lng |-> "-73.6", country |-> "CA"],
      [lat |-> None, lng |-> None, country |-> None] }
TimezoneResults == { Ok(PyDict([timeZoneId |-> "America/Toronto"])), Raise("KeyError") }
SiteKwargs == { [none |-> TRUE], [rf_template_id |-> "rf1", sitegroup_ids |-> "g1"] }
SiteNames == {"HQ"}
SiteAddress == "1 Main St"

\* the attributes Site.__init__ sets when the probe finds no site
site_init_absent(self, address, geo, tz, kwargs) ==
    LET s1 == SetAttr(self, "address", address)
        s2 == SetAttr(s1, "lat", geo.lat)
        s3 == SetAttr(s2, "lng", geo.lng)
        s4 == SetAttr(s3, "country_code", geo.country)
        s5 == SetAttr(s4, "timezone", tz)
        s6 == SetAttr(s5, "rf_template_id", Attr(kwargs, "rf_template_id", None))
    IN  SetAttr(s6, "sitegroup_ids", Attr(kwargs, "sitegroup_ids", None))

site_new(name, a, cfg) ==
    [class |-> "Site", name |-> name, org_id |-> a.org_id,
     google_api_key |-> Attr(cfg, "google_api_key", None)]

\* Site.__init__: self is NoObject when the constructor raised
SiteInitRuns(name, address, c, a, cfg) ==
    UNION { IF p.out.raised # "no" THEN { [p EXCEPT !.self = NoObject] }
            ELSE IF p.out.value.val THEN { [p EXCEPT !.out = Ok(PyNone)] }
            ELSE { IF tz.raised # "no"
                   THEN [p EXCEPT !.self = NoObject, !.out = tz]
                   ELSE [p EXCEPT !.self = site_init_absent(p.self, address, geo,
                                                          tz.value.val.timeZoneId, kw),
                                  !.out = Ok(PyNone)]
                   : geo \in GeoResults, tz \in TimezoneResults, kw \in SiteKwargs }
            : p \in SiteProbeRuns(site_new(name, a, cfg), c, a) }

Site_init ==
    /\ api.class = "API"
    /\ \E name \in SiteNames : \E r \in SiteInitRuns(name, SiteAddress, cloud, api, config) :
          /\ site' = IF r.self = NoObject THEN site ELSE r.self
          /\ cloud' = r.cloud
          /\ Record("Site.__init__", r.calls, r.out, r.self)
    /\ UNCHANGED <<environ, config, actor, tok, api, wlan, ap, apcls>>

Site_create ==
    /\ api.class = "API"
    /\ site.class = "Site"
    /\ \E r \in SiteCreateRuns(site, cloud, api) :
          /\ site' = r.self
          /\ cloud' = r.cloud
          /\ Record("Site.create", r.calls, r.out, r.self)
    /\ UNCHANGED <<environ, config, actor, tok, api, wlan, ap, apcls>>

Site_delete ==
    /\ api.class = "API"
    /\ site.class = "Site"
    /\ \E r \in SiteDeleteRuns(site, cloud, api) :
          /\ site' = r.self
          /\ cloud' = r.cloud
          /\ Record("Site.delete", r.calls, r.out, r.self)
    /\ UNCHANGED <<environ, config, actor, tok, api, wlan, ap, apcls>>

\* the listings the organization may hold when the script starts
InitialSites ==
    { <<>>,
      << [id |-> "x1", name |-> "HQ", timezone |-> "UTC", country_code |-> "US",
          address |-> "2 Side St", latlng |-> [lat |-> "40.7", lng |-> "-74.0"]] >>,
      << [id |-> "x2", name |-> "LAB"], [id |-> "x1", name |-> "HQ"] >> }

InitSite ==
    /\ environ = [PATH |-> "/bin", MIST_TOKEN |-> MasterEnv]
    /\ config = [site |-> [name |-> "HQ"], token |-> MasterCfg, org_id |-> "o_cfg"]
    /\ \E ss \in InitialSites : cloud = [CloudInit EXCEPT !.sites = ss]
    /\ tok = NoObject
    /\ api = NoObject
    /\ site = NoObject
    /\ wlan = NoObject
    /\ ap = NoAPs
    /\ apcls = APClass
    /\ actor = NoActors
    /\ last = NoOp
    /\ prev = Summary(NoOp)

NextSite ==
    \/ API_init
    \/ Site_init
    \/ Site_create
    \/ Site_delete

SpecSite == InitSite /\ [][NextSite]_vars

(***************************************************************************)
(* Site.configure_*.  cloud.settings maps the id of a site to the settings *)
(* document PUT sites/<site_id>/setting has built for it.                  *)
(***************************************************************************)
\* PUT sites/<site_id>/setting: the body's keys replace the stored ones
CloudPutSiteSetting(c, req, id) ==
    { [resp |-> r, cloud |-> c] : r \in ErrorResponses }
    \cup
    IF Authorized(c, req) /\ \E i \in DOMAIN c.sites : c.sites[i].id = id
    THEN LET old == IF id \in DOMAIN c.settings THEN c.settings[id] ELSE [site_id |-> id]
             new == json_loads(req.data).value.val @@ old
         IN  { [resp |-> [status |-> 200, text |-> JsonText(PyDict(new))],
                cloud |-> [c EXCEPT !.settings =
                              [k \in DOMAIN c.settings \cup {id} |->
                                  IF k = id THEN new ELSE c.settings[k]]]] }
    ELSE {}

site_setting_request(a, self, data_put) ==
    api_request_body(a, "PUT", <<"sites", Attr(self, "site_id", None), "setting">>,
                     PyDict(data_put))

\* a variant that runs the existence probe before the PUT
SiteSettingRuns_probe_first(self, c, a, data_put) ==
    UNION { IF p.out.raised # "no" THEN { p }
            ELSE { [self |-> p.self, out |-> verify_response(ans.resp), cloud |-> ans.cloud,
                    calls |-> Append(p.calls,
                                     Call(site_setting_request(a, p.self, data_put), ans.resp))]
                   : ans \in CloudPutSiteSetting(p.cloud,
                                                 site_setting_request(a, p.self, data_put),
                                                 Attr(p.self, "site_id", None)) }
            : p \in SiteProbeRuns(self, c, a) }

\* the PUT the three configure methods share: [self, out, cloud, calls]
SiteSettingRuns(self, c, a, data_put) ==
    { [self |-> self, out |-> verify_response(ans.resp), cloud |-> ans.cloud,
       calls |-> <<Call(site_setting_request(a, self, data_put), ans.resp)>>]
      : ans \in CloudPutSiteSetting(c, site_setting_request(a, self, data_put),
                                    Attr(self, "site_id", None)) }

\* the attribute a configure method sets once api.put returned
site_configured(r, name, v) ==
    IF r.out.raised # "no" THEN r ELSE [r EXCEPT !.self = SetAttr(@, name, v)]

SitePersistRuns(self, config_persistence_enable, c, a) ==
    { site_configured(r, "config_persistence_enable", config_persistence_enable)
      : r \in SiteSettingRuns(self, c, a,
                              [persist_config_on_device |-> config_persistence_enable]) }

SiteRfTemplateRuns(self, rf_template_id, c, a) ==
    { site_configured(r, "rf_template_id", rf_template_id)
      : r \in SiteSettingRuns(self, c, a, [rftemplate_id |-> rf_template_id]) }

RfTemplates == {"rf1"}
ConfigsUpdates == { [rftemplate_id |-> "rf2"] }

Site_configure_persist_config_on_device ==
    /\ api.class = "API"
    /\ site.class = "Site"
    /\ \E e \in BOOLEAN : \E r \in SitePersistRuns(site, e, cloud, api) :
          /\ site' = r.self
          /\ cloud' = r.cloud
          /\ Record("Site.configure_persist_config_on_device", r.calls, r.out, r.self)
    /\ UNCHANGED <<environ, config, actor, tok, api, wlan, ap, apcls>>

Site_configure_rf_template ==
    /\ api.class = "API"
    /\ site.class = "Site"
    /\ \E t \in RfTemplates : \E r \in SiteRfTemplateRuns(site, t, cloud, api) :
          /\ site' = r.self
          /\ cloud' = r.cloud
          /\ Record("Site.configure_rf_template", r.calls, r.out, r.self)
    /\ UNCHANGED <<environ, config, actor, tok, api, wlan, ap, apcls>>

Site_configure_site_settings ==
    /\ api.class = "API"
    /\ site.class = "Site"
    /\ \E u \in ConfigsUpdates : \E r \in SiteSettingRuns(site, cloud, api, u) :
          /\ site' = r.self
          /\ cloud' = r.cloud
          /\ Record("Site.configure_site_settings", r.calls, r.out, r.self)
    /\ UNCHANGED <<environ, config, actor, tok, api, wlan, ap, apcls>>

NextConfigure ==
    \/ API_init
    \/ Site_init
    \/ Site_configure_persist_config_on_device
    \/ Site_configure_rf_template
    \/ Site_configure_site_settings

SpecConfigure == InitSite /\ [][NextConfigure]_vars

(***************************************************************************)
(* Two scripts that work on the same organization through the same client, *)
(* each with its own Site handle for the same name.  Site.create is two    *)
(* steps here, the probe and the POST, and the steps of the two scripts    *)
(* interleave.                                                             *)
(***************************************************************************)
Other(p) == CHOOSE q \in Actors : q # p

\* the POST of Site.create and what follows it, after the probe run p
\* returned False: [self, out, cloud, calls]
SiteCreateAct(p, c, a) ==
    { LET r == site_adopt_created(p.self, verify_response(ans.resp)) IN
      [self |-> r.self, out |-> r.out, cloud |-> ans.cloud,
       calls |-> Append(p.calls, Call(site_create_request(a, p.self), ans.resp))]
      : ans \in CloudCreateSite(c, site_create_request(a, p.self)) }

Actor_Site_init(p) ==
    /\ api.class = "API"
    /\ actor[p].pc = "none"
    /\ \E name \in SiteNames : \E r \in SiteInitRuns(name, SiteAddress, cloud, api, config) :
          /\ actor' = IF r.self = NoObject THEN actor
                      ELSE [actor EXCEPT ![p].pc = "ready", ![p].self = r.self]
          /\ cloud' = r.cloud
          /\ Record("Site.__init__", r.calls, r.out, r.self)
    /\ UNCHANGED <<environ, config, tok, api, site, wlan, ap, apcls>>

\* the first step of create(): the probe; create() returns here when the
\* probe raises or finds the site
Actor_Site_create_probe(p) ==
    /\ api.class = "API"
    /\ actor[p].pc = "ready"
    /\ \E r \in SiteProbeRuns(actor[p].self, cloud, api) :
          /\ cloud' = r.cloud
          /\ IF r.out.raised = "no" /\ ~r.out.value.val
             THEN /\ actor' = [actor EXCEPT
                                 ![p] = [pc |-> "probed", self |-> r.self, calls |-> r.calls,
                                         out |-> r.out,
                                         alone |-> actor[Other(p)].pc # "probed"],
                                 ![Other(p)].alone = @ /\ actor[Other(p)].pc # "probed"]
                  /\ UNCHANGED <<last, prev>>
             ELSE LET out == IF r.out.raised # "no" THEN r.out ELSE site_existing(r.self) IN
                  /\ actor' = [actor EXCEPT
                                 ![p] = [pc |-> "done", self |-> r.self, calls |-> r.calls,
                                         out |-> out,
                                         alone |-> actor[Other(p)].pc # "probed"],
                                 ![Other(p)].alone = @ /\ actor[Other(p)].pc # "probed"]
                  /\ Record("Site.create", r.calls, out, r.self)
    /\ UNCHANGED <<environ, config, tok, api, site, wlan, ap, apcls>>

\* the second step of create(): the POST
Actor_Site_create_act(p) ==
    /\ api.class = "API"
    /\ actor[p].pc = "probed"
    /\ \E r \in SiteCreateAct(actor[p], cloud, api) :
          /\ cloud' = r.cloud
          /\ actor' = [actor EXCEPT ![p].pc = "done", ![p].self = r.self,
                                    ![p].calls = r.calls, ![p].out = r.out]
          /\ Record("Site.create", r.calls, r.out, r.self)
    /\ UNCHANGED <<environ, config, tok, api, site, wlan, ap, apcls>>

NextRace ==
    \/ API_init
    \/ \E p \in Actors : Actor_Site_init(p)
    \/ \E p \in Actors : Actor_Site_create_probe(p)
    \/ \E p \in Actors : Actor_Site_create_act(p)

SpecRace == InitSite /\ [][NextRace]_vars

(***************************************************************************)
(* The controller's WLAN endpoints.  cloud.wlans is the listing of the     *)
(* site WlanSite.                                                          *)
(***************************************************************************)
WlanSite == "x1"

CloudListWlans(c, req) ==
    { [resp |-> r, cloud |-> c] : r \in ErrorResponses }
    \cup
    IF Authorized(c, req)
    THEN { [resp |-> [status |-> 200, text |-> JsonText(PyList(c.wlans))], cloud |-> c] }
    ELSE {}

\* POST sites/<site_id>/wlans
CloudCreateWlan(c, req) ==
    { [resp |-> r, cloud |-> c] : r \in ErrorResponses }
    \cup
    IF Authorized(c, req) /\ c.next_id <= MaxIds
    THEN LET rec == SetAttr(json_loads(req.data).value.val, "id", EntityIds[c.next_id])
         IN  { [resp |-> [status |-> 200, text |-> JsonText(PyDict(rec))],
                cloud |-> [c EXCEPT !.wlans = Append(@, rec), !.next_id = @ + 1]] }
    ELSE {}

\* DELETE sites/<site_id>/wlans/<wlan_id>
CloudDeleteWlan(c, req, id) ==
    { [resp |-> r, cloud |-> c] : r \in ErrorResponses }
    \cup
    IF Authorized(c, req) /\ \E i \in DOMAIN c.wlans : c.wlans[i].id = id
    THEN { [resp |-> [status |-> 200, text |-> JsonText(PyDict([ok |-> "true"]))],
            cloud |-> [c EXCEPT !.wlans = RemoveId(@, id)]] }
    ELSE {}

(***************************************************************************)
(* WLAN                                                                    *)
(***************************************************************************)
\* the assignments of WLAN._does_exist_on_cloud for the matching record, in
\* order; a record without band, interface, hostname_ie or auth stops them
wlan_adopt(self, rec) ==
    LET s1 == SetAttr(self, "wlan_id", rec.id) IN
    IF "band" \notin DOMAIN rec THEN [self |-> s1, out |-> Raise("KeyError")] ELSE
    LET s2 == SetAttr(s1, "band", rec.band) IN
    IF "interface" \notin DOMAIN rec THEN [self |-> s2, out |-> Raise("KeyError")] ELSE
    LET s3 == SetAttr(s2, "interface", rec.interface) IN
    IF "hostname_ie" \notin DOMAIN rec THEN [self |-> s3, out |-> Raise("KeyError")] ELSE
    LET s4 == SetAttr(s3, "hostname_ie", rec.hostname_ie)
        s5 == SetAttr(s4, "roam_mode", Attr(rec, "roam_mode", None))
    IN
    IF "auth" \notin DOMAIN rec THEN [self |-> s5, out |-> Raise("KeyError")] ELSE
    LET s6 == SetAttr(s5, "auth", rec.auth)
        s7 == SetAttr(s6, "auth_servers", Attr(rec, "auth_servers", None))
    IN  [self |-> SetAttr(s7, "rateset", Attr(rec, "rateset", None)),
         out |-> Ok(PyBool(TRUE))]

\* WLAN._does_exist_on_cloud given what api.get returned: [self, out]
wlan_does_exist_on_cloud(self, got) ==
    IF got.raised # "no" THEN [self |-> self, out |-> got]
    ELSE IF got.value.kind # "list" THEN [self |-> self, out |-> Raise("TypeError")]
    ELSE LET i == FirstMatch(got.value.val, "ssid", self.ssid) IN
         IF i = 0 THEN [self |-> self, out |-> Ok(PyBool(FALSE))]
         ELSE wlan_adopt(self, got.value.val[i])

wlan_list_request(a, self) == api_request(a, "GET", <<"sites", self.site_id, "wlans">>)

WlanProbeRuns(self, c, a) ==
    { LET p == wlan_does_exist_on_cloud(self, verify_response(ans.resp)) IN
      [self |-> p.self, out |-> p.out, cloud |-> ans.cloud,
       calls |-> <<Call(wlan_list_request(a, self), ans.resp)>>]
      : ans \in CloudListWlans(c, wlan_list_request(a, self)) }

\* the creation payload of WLAN.create, built before the probe
wlan_body(self) ==
    [enabled |-> "true",
     ssid |-> self.ssid,
     band |-> Attr(self, "band", None),
     interface |-> Attr(self, "interface", None),
     hostname_ie |-> Attr(self, "hostname_ie", None),
     roam_mode |-> Attr(self, "roam_mode", None),
     auth |-> Attr(self, "auth", None),
     auth_servers |-> Attr(self, "auth_servers", None),
     rateset |-> Attr(self, "rateset", None)]

\* WLAN.create once the POST returned posted: [self, out]
wlan_adopt_created(self, posted) ==
    IF posted.raised # "no" THEN [self |-> self, out |-> posted]
    ELSE IF posted.value.kind # "dict" THEN [self |-> self, out |-> Raise("TypeError")]
    ELSE IF "id" \notin DOMAIN posted.value.val THEN [self |-> self, out |-> Raise("KeyError")]
    ELSE [self |-> SetAttr(self, "wlan_id", posted.value.val.id), out |-> posted]

\* what WLAN.create returns when the WLAN is already there: the else branch
\* logs and falls off the end of the function
wlan_existing(self) == Ok(PyNone)

\* body: the payload, built from the handle as it was before the probe
wlan_create_request(a, self, body) ==
    api_request_body(a, "POST", <<"sites", self.site_id, "wlans">>, PyDict(body))

WlanCreateRuns(self, c, a) ==
    UNION { IF p.out.raised # "no" THEN { p }
            ELSE IF p.out.value.val
                 THEN { [p EXCEPT !.out = wlan_existing(p.self)] }
                 ELSE { LET r == wlan_adopt_created(p.self, verify_response(ans.resp)) IN
                        [self |-> r.self, out |-> r.out, cloud |-> ans.cloud,
                         calls |-> Append(p.calls, Call(wlan_create_request(a, p.self, wlan_body(self)),
                                                        ans.resp))]
                        : ans \in CloudCreateWlan(p.cloud,
                                      wlan_create_request(a, p.self, wlan_body(self))) }
            : p \in WlanProbeRuns(self, c, a) }

\* WLAN.__delete__: writes a log record
wlan_dunder_delete(self) == self

wlan_delete_request(a, self) ==
    api_request(a, "DELETE", <<"sites", self.site_id, "wlans", Attr(self, "wlan_id", None)>>)

WlanDeleteRuns(self, c, a) ==
    UNION { IF p.out.raised # "no" THEN { p }
            ELSE IF ~p.out.value.val
                 THEN { [p EXCEPT !.out = Ok(PyBool(FALSE))] }
                 ELSE { LET d == verify_delete_response(ans.resp) IN
                        [self |-> IF d.raised = "no" THEN wlan_dunder_delete(p.self) ELSE p.self,
                         out |-> d, cloud |-> ans.cloud,
                         calls |-> Append(p.calls, Call(wlan_delete_request(a, p.self), ans.resp))]
                        : ans \in CloudDeleteWlan(p.cloud, wlan_delete_request(a, p.self),
                                                  Attr(p.self, "wlan_id", None)) }
            : p \in WlanProbeRuns(self, c, a) }

\* a record written through the module's logger
LogRecord(level) == [level |-> level]

\* a variant that accepts the empty passphrase silently
validate_psk_configuration_quiet(self, wlan_config) ==
    LET s1 == SetAttr(self, "auth", wlan_config.auth) IN
    IF "psk" \notin DOMAIN wlan_config.auth
    THEN [self |-> s1, out |-> Raise("Exception"), log |-> <<>>]
    ELSE [self |-> s1, out |-> Ok(PyNone), log |-> <<>>]

\* WLAN._validate_psk_configuration: [self, out, log]
validate_psk_configuration(self, wlan_config) ==
    LET s1 == SetAttr(self, "auth", wlan_config.auth) IN
    IF "psk" \notin DOMAIN wlan_config.auth
    THEN [self |-> s1, out |-> Raise("Exception"), log |-> <<>>]
    ELSE IF wlan_config.auth.psk = ""
         THEN [self |-> s1, out |-> Ok(PyNone), log |-> <<LogRecord("WARNING")>>]
         ELSE [self |-> s1, out |-> Ok(PyNone), log |-> <<>>]

\* WLAN._validate_dot1x_configuration: [self, out, log]
validate_dot1x_configuration(self, wlan_config) ==
    IF wlan_config.auth.type = "eap" /\ "auth_servers" \in DOMAIN wlan_config
    THEN IF wlan_config.auth_servers = <<>>
         THEN [self |-> self, out |-> Raise("Exception"), log |-> <<>>]
         ELSE [self |-> SetAttr(SetAttr(self, "auth", wlan_config.auth),
                                "auth_servers", wlan_config.auth_servers),
               out |-> Ok(PyNone), log |-> <<>>]
    ELSE [self |-> self, out |-> Ok(PyNone), log |-> <<>>]

\* the attributes WLAN.__init__ takes from wlan_config when the probe finds no
\* WLAN, then the validation of the auth section: [self, out, log]
wlan_init_absent(self, wlan_config) ==
    LET s1 == SetAttr(self, "band", Attr(wlan_config, "band", None))
        s2 == SetAttr(s1, "interface", Attr(wlan_config, "interface", None))
        s3 == SetAttr(s2, "hostname_ie", Attr(wlan_config, "hostname_ie", None))
        s4 == SetAttr(s3, "roam_mode", Attr(wlan_config, "roam_mode", None))
        s5 == SetAttr(s4, "rateset", Attr(wlan_config, "rateset", None))
    IN  IF "auth" \notin DOMAIN wlan_config
        THEN [self |-> s5, out |-> Ok(PyNone), log |-> <<>>]
        ELSE IF wlan_config.auth.type = "psk" THEN validate_psk_configuration(s5, wlan_config)
        ELSE IF wlan_config.auth.type = "eap" THEN validate_dot1x_configuration(s5, wlan_config)
        ELSE [self |-> s5, out |-> Ok(PyNone), log |-> <<>>]

wlan_new(ssid, site_id) == [class |-> "WLAN", ssid |-> ssid, site_id |-> site_id]

\* a variant of WLAN.__init__ that validates before it probes
WlanInitRuns_validate_first(ssid, site_id, wlan_config, c, a) ==
    LET r == wlan_init_absent(wlan_new(ssid, site_id), wlan_config) IN
    IF r.out.raised # "no"
    THEN { [self |-> NoObject, out |-> r.out, cloud |-> c, calls |-> <<>>,
            log |-> <<LogRecord("DEBUG")>> \o r.log] }
    ELSE { IF p.out.raised # "no"
           THEN [self |-> NoObject, out |-> p.out, cloud |-> p.cloud, calls |-> p.calls,
                 log |-> <<LogRecord("DEBUG")>> \o r.log]
           ELSE [self |-> IF p.out.value.val THEN p.self ELSE r.self, out |-> Ok(PyNone),
                 cloud |-> p.cloud, calls |-> p.calls,
                 log |-> <<LogRecord("DEBUG")>> \o r.log]
           : p \in WlanProbeRuns(wlan_new(ssid, site_id), c, a) }

\* WLAN.__init__: self is NoObject when the constructor raised; log holds the
\* records the constructor and the validators wrote
WlanInitRuns(ssid, site_id, wlan_config, c, a) ==
    { IF p.out.raised # "no"
      THEN [self |-> NoObject, out |-> p.out, cloud |-> p.cloud, calls |-> p.calls,
            log |-> <<LogRecord("DEBUG")>>]
      ELSE IF p.out.value.val
      THEN [self |-> p.self, out |-> Ok(PyNone), cloud |-> p.cloud, calls |-> p.calls,
            log |-> <<LogRecord("DEBUG")>>]
      ELSE LET r == wlan_init_absent(p.self, wlan_config) IN
           [self |-> IF r.out.raised = "no" THEN r.self ELSE NoObject,
            out |-> r.out, cloud |-> p.cloud, calls |-> p.calls,
            log |-> <<LogRecord("DEBUG")>> \o r.log]
      : p \in WlanProbeRuns(wlan_new(ssid, site_id), c, a) }

WlanBase == [band |-> "both", interface |-> "all", hostname_ie |-> "true"]
WlanConfigs ==
    { WlanBase,
      [ssid |-> "corp"],
      [band |-> "5", interface |-> "all", hostname_ie |-> "true",
       auth |-> [type |-> "psk", psk |-> "secret"], roam_mode |-> "11r"],
      [band |-> "5", interface |-> "all", hostname_ie |-> "true",
       auth |-> [type |-> "psk", psk |-> ""]],
      [band |-> "5", interface |-> "all", hostname_ie |-> "true",
       auth |-> [type |-> "psk"]],
      [band |-> "5", interface |-> "all", hostname_ie |-> "true",
       auth |-> [type |-> "eap"], auth_servers |-> <<"radius1">>],
      [band |-> "5", interface |-> "all", hostname_ie |-> "true",
       auth |-> [type |-> "eap"], auth_servers |-> <<>>],
      [band |-> "5", interface |-> "all", hostname_ie |-> "true",
       auth |-> [type |-> "eap"]] }
Ssids == {"corp"}

WLAN_init ==
    /\ api.class = "API"
    /\ \E ssid \in Ssids, wc \in WlanConfigs :
       \E r \in WlanInitRuns(ssid, WlanSite, wc, cloud, api) :
          /\ wlan' = IF r.self = NoObject THEN wlan ELSE r.self
          /\ cloud' = r.cloud
          /\ RecordWith("WLAN.__init__", r.calls, r.out, r.self,
                        [ssid |-> ssid, site_id |-> WlanSite, wlan_config |-> wc], r.log)
    /\ UNCHANGED <<environ, config, actor, tok, api, site, ap, apcls>>

WLAN_create ==
    /\ api.class = "API"
    /\ wlan.class = "WLAN"
    /\ \E r \in WlanCreateRuns(wlan, cloud, api) :
          /\ wlan' = r.self
          /\ cloud' = r.cloud
          /\ Record("WLAN.create", r.calls, r.out, r.self)
    /\ UNCHANGED <<environ, config, actor, tok, api, site, ap, apcls>>

WLAN_delete ==
    /\ api.class = "API"
    /\ wlan.class = "WLAN"
    /\ \E r \in WlanDeleteRuns(wlan, cloud, api) :
          /\ wlan' = r.self
          /\ cloud' = r.cloud
          /\ Record("WLAN.delete", r.calls, r.out, r.self)
    /\ UNCHANGED <<environ, config, actor, tok, api, site, ap, apcls>>

\* the WLAN listings the site may hold when the script starts
InitialWlans ==
    { <<>>,
      << [id |-> "w1", ssid |-> "corp", band |-> "24", interface |-> "all",
          hostname_ie |-> "false", auth |-> [type |-> "open"]] >> }

InitWlan ==
    /\ environ = [PATH |-> "/bin", MIST_TOKEN |-> MasterEnv]
    /\ config = [site |-> [name |-> "HQ"], token |-> MasterCfg, org_id |-> "o_cfg"]
    /\ \E ws \in InitialWlans :
          cloud = [CloudInit EXCEPT !.sites = << [id |-> WlanSite, name |-> "HQ"] >>,
                                    !.wlans = ws]
    /\ tok = NoObject
    /\ api = NoObject
    /\ site = NoObject
    /\ wlan = NoObject
    /\ ap = NoAPs
    /\ apcls = APClass
    /\ actor = NoActors
    /\ last = NoOp
    /\ prev = Summary(NoOp)

NextWlan ==
    \/ API_init
    \/ WLAN_init
    \/ WLAN_create
    \/ WLAN_delete

SpecWlan == InitWlan /\ [][NextWlan]_vars

(***************************************************************************)
(* A script that builds Site and WLAN handles and deletes the entities.    *)
(***************************************************************************)
InitDelete ==
    /\ environ = [PATH |-> "/bin", MIST_TOKEN |-> MasterEnv]
    /\ config = [site |-> [name |-> "HQ"], token |-> MasterCfg, org_id |-> "o_cfg"]
    /\ \E ss \in InitialSites, ws \in InitialWlans :
          cloud = [CloudInit EXCEPT !.sites = ss, !.wlans = ws]
    /\ tok = NoObject
    /\ api = NoObject
    /\ site = NoObject
    /\ wlan = NoObject
    /\ ap = NoAPs
    /\ apcls = APClass
    /\ actor = NoActors
    /\ last = NoOp
    /\ prev = Summary(NoOp)

NextDelete ==
    \/ API_init
    \/ Site_init
    \/ Site_delete
    \/ WLAN_init
    \/ WLAN_delete

SpecDelete == InitDelete /\ [][NextDelete]_vars

(***************************************************************************)
(* The controller's device endpoints.  cloud.devices is the inventory: a   *)
(* device record holds org, mac, id, serial, model, type and site_id       *)
(* (None while the device is assigned to no site).                         *)
(***************************************************************************)
\* the device a claim code stands for
ClaimCodes == {"CODE1"}
ClaimedDevice(code) ==
    [mac |-> "m1", id |-> "d1", serial |-> "s1", model |-> "AP43", type |-> "ap"]

InventoryOf(c, org) == SelectSeq(c.devices, LAMBDA d : d.org = org)
SiteDevices(c, site_id) == SelectSeq(c.devices, LAMBDA d : d.site_id = site_id)
HasMac(seq, mac) == \E i \in DOMAIN seq : seq[i].mac = mac

\* GET installer/orgs/<org_id>/devices
CloudListInventory(c, req, org) ==
    { [resp |-> r, cloud |-> c] : r \in ErrorResponses }
    \cup
    IF Authorized(c, req)
    THEN { [resp |-> [status |-> 200, text |-> JsonText(PyList(InventoryOf(c, org)))],
            cloud |-> c] }
    ELSE {}

\* GET sites/<site_id>/devices
CloudListSiteDevices(c, req, site_id) ==
    { [resp |-> r, cloud |-> c] : r \in ErrorResponses }
    \cup
    IF Authorized(c, req) /\ site_id # None
    THEN { [resp |-> [status |-> 200, text |-> JsonText(PyList(SiteDevices(c, site_id)))],
            cloud |-> c] }
    ELSE {}

\* POST orgs/<org_id>/inventory: a known code of a device nobody holds adds
\* the device; any other code is answered with an empty inventory_added
CloudClaim(c, req, org) ==
    { [resp |-> r, cloud |-> c] : r \in ErrorResponses }
    \cup
    IF Authorized(c, req)
    THEN LET code == json_loads(req.data).value.val[1] IN
         IF code \in ClaimCodes /\ ~HasMac(c.devices, ClaimedDevice(code).mac)
         THEN LET d == ClaimedDevice(code) IN
              { [resp |-> [status |-> 200,
                           text |-> JsonText(PyDict([inventory_added |-> <<d>>,
                                                     error |-> <<>>]))],
                 cloud |-> [c EXCEPT !.devices =
                               Append(@, SetAttr(SetAttr(d, "org", org), "site_id", None))]] }
         ELSE { [resp |-> [status |-> 200,
                           text |-> JsonText(PyDict([inventory_added |-> <<>>,
                                                     error |-> <<code>>]))],
                 cloud |-> c] }
    ELSE {}

\* PUT installer/orgs/<org_id>/devices/<mac>: assigns the device to the site
\* of the body and answers with the device record
CloudProvision(c, req, org, mac) ==
    { [resp |-> r, cloud |-> c] : r \in ErrorResponses }
    \cup
    IF Authorized(c, req) /\ HasMac(InventoryOf(c, org), mac)
    THEN LET body == json_loads(req.data).value.val
             Assign(d) == SetAttr(SetAttr(d, "site_id", body.site_id), "name", body.name)
             after == [j \in DOMAIN c.devices |->
                          IF c.devices[j].org = org /\ c.devices[j].mac = mac
                          THEN Assign(c.devices[j]) ELSE c.devices[j]]
             i == CHOOSE i \in DOMAIN after : after[i].org = org /\ after[i].mac = mac
         IN  { [resp |-> [status |-> 200, text |-> JsonText(PyDict(after[i]))],
                cloud |-> [c EXCEPT !.devices = after]] }
    ELSE {}

\* PUT sites/<site_id>/devices/<device_id>: stores the radio configuration of
\* the body and answers with the device record
CloudPutDevice(c, req, site_id, id) ==
    { [resp |-> r, cloud |-> c] : r \in ErrorResponses }
    \cup
    IF /\ Authorized(c, req)
       /\ \E i \in DOMAIN c.devices : c.devices[i].site_id = site_id /\ c.devices[i].id = id
    THEN LET body == json_loads(req.data).value.val
             i == CHOOSE i \in DOMAIN c.devices :
                     c.devices[i].site_id = site_id /\ c.devices[i].id = id
             d == SetAttr(c.devices[i], "radio_config", body.radio_config)
         IN  { [resp |-> [status |-> 200, text |-> JsonText(PyDict(d))],
                cloud |-> [c EXCEPT !.devices[i] = d]] }
    ELSE {}

(***************************************************************************)
(* AP.  A run of a method is [self, cls, out, cloud, calls]: the instance  *)
(* and the class attributes as the method left them, its outcome, the      *)
(* controller after it and the calls it made.                              *)
(***************************************************************************)
\* the MAC address the script gives each instance
ApMac == [a1 |-> "m1", a2 |-> "m2"]

\* AP.__init__: [self, cls, out]; the last assignment writes the key
\* 'radio_config' into the dict the class attribute radio_configs holds
ap_init(mac, site_id, cfg, cls) ==
    IF "ap" \notin DOMAIN cfg \/ "site" \notin DOMAIN cfg
    THEN [self |-> NoObject, cls |-> cls, out |-> Raise("KeyError")]
    ELSE IF "name" \notin DOMAIN cfg.site
    THEN [self |-> NoObject, cls |-> cls, out |-> Raise("KeyError")]
    ELSE [self |-> [class |-> "AP",
                    mac |-> mac,
                    name |-> Attr(cfg.ap, "name", None),
                    site_id |-> site_id,
                    site_name |-> cfg.site.name,
                    claim_code |-> Attr(cfg.ap, "claim_code", None),
                    height |-> Attr(cfg.ap, "height", None),
                    orientation |-> Attr(cfg.ap, "orientation", None)],
          cls |-> [cls EXCEPT !.radio_configs = SetAttr(@, "radio_config", EmptyDict)],
          out |-> Ok(PyNone)]

ap_inventory_request(a, org_id) ==
    api_request(a, "GET", <<"installer", "orgs", org_id, "devices">>)

\* AP._has_been_claimed given what api.get returned: the outcome
ap_has_been_claimed(self, got) ==
    IF got.raised # "no" THEN got
    ELSE IF got.value.kind # "list" THEN Raise("TypeError")
    ELSE Ok(PyBool(HasMac(got.value.val, self.mac)))

ApInventoryProbeRuns(self, org_id, c, a) ==
    { [out |-> ap_has_been_claimed(self, verify_response(ans.resp)), cloud |-> ans.cloud,
       calls |-> <<Call(ap_inventory_request(a, org_id), ans.resp)>>]
      : ans \in CloudListInventory(c, ap_inventory_request(a, org_id), org_id) }

\* the index of the first device of type "ap" with the MAC, 0 if none
ApMatch(seq, mac) ==
    IF \E i \in DOMAIN seq : seq[i].type = "ap" /\ seq[i].mac = mac
    THEN CHOOSE i \in DOMAIN seq :
            /\ seq[i].type = "ap" /\ seq[i].mac = mac
            /\ \A j \in 1..(i - 1) : ~(seq[j].type = "ap" /\ seq[j].mac = mac)
    ELSE 0

\* the three fields an operation adopts from a device record, in order
ap_adopt_device(self, dev) ==
    IF "id" \notin DOMAIN dev THEN [self |-> self, out |-> Raise("KeyError")] ELSE
    LET s1 == SetAttr(self, "id", dev.id) IN
    IF "serial" \notin DOMAIN dev THEN [self |-> s1, out |-> Raise("KeyError")] ELSE
    LET s2 == SetAttr(s1, "serial", dev.serial) IN
    IF "model" \notin DOMAIN dev THEN [self |-> s2, out |-> Raise("KeyError")] ELSE
    [self |-> SetAttr(s2, "model", dev.model), out |-> Ok(PyNone)]

\* the assignments of AP._does_belong_to_site for the matching device; the
\* last one writes the key 'id' into the dict the class attribute map holds
ap_adopt(self, cls, dev) ==
    LET r == ap_adopt_device(self, dev) IN
    IF r.out.raised # "no" THEN [self |-> r.self, cls |-> cls, out |-> r.out]
    ELSE [self |-> r.self,
          cls |-> [cls EXCEPT !.map = SetAttr(@, "id", Attr(dev, "map_id", None))],
          out |-> Ok(PyBool(TRUE))]

\* AP._does_belong_to_site given what api.get returned: [self, cls, out]
ap_does_belong_to_site(self, cls, got) ==
    IF got.raised # "no" THEN [self |-> self, cls |-> cls, out |-> got]
    ELSE IF got.value.kind # "list" THEN [self |-> self, cls |-> cls, out |-> Raise("TypeError")]
    ELSE LET i == ApMatch(got.value.val, self.mac) IN
         IF i = 0 THEN [self |-> self, cls |-> cls, out |-> Ok(PyBool(FALSE))]
         ELSE ap_adopt(self, cls, got.value.val[i])

ap_site_devices_request(a, self) ==
    api_request(a, "GET", <<"sites", self.site_id, "devices">>)

ApSiteProbeRuns(self, cls, c, a) ==
    { LET p == ap_does_belong_to_site(self, cls, verify_response(ans.resp)) IN
      [self |-> p.self, cls |-> p.cls, out |-> p.out, cloud |-> ans.cloud,
       calls |-> <<Call(ap_site_devices_request(a, self), ans.resp)>>]
      : ans \in CloudListSiteDevices(c, ap_site_devices_request(a, self), self.site_id) }

\* AP.claim once the POST returned posted: [self, out]
ap_claim_adopt(self, posted) ==
    IF posted.raised # "no" THEN [self |-> self, out |-> posted]
    ELSE IF posted.value.kind # "dict" THEN [self |-> self, out |-> Raise("TypeError")]
    ELSE IF "inventory_added" \notin DOMAIN posted.value.val
    THEN [self |-> self, out |-> Raise("KeyError")]
    ELSE IF posted.value.val.inventory_added = <<>>
    THEN [self |-> self, out |-> Raise("IndexError")]
    ELSE ap_adopt_device(self, posted.value.val.inventory_added[1])

ap_claim_request(a, self, org_id) ==
    api_request_body(a, "POST", <<"orgs", org_id, "inventory">>, PyList(<<self.claim_code>>))

\* AP.claim(org_id): the inventory probe names the organization of the client
\* a variant that tests the claim code before it probes the inventory
ApClaimRuns_code_first(self, cls, org_id, c, a) ==
    IF self.claim_code = None
    THEN { [self |-> self, cls |-> cls, out |-> Raise("Exception"),
            cloud |-> c, calls |-> <<>>] }
    ELSE UNION { IF p.out.raised # "no"
                 THEN { [self |-> self, cls |-> cls, out |-> p.out,
                         cloud |-> p.cloud, calls |-> p.calls] }
                 ELSE IF p.out.value.val
                 THEN { [self |-> self, cls |-> cls, out |-> Ok(PyNone),
                         cloud |-> p.cloud, calls |-> p.calls] }
                 ELSE { LET r == ap_claim_adopt(self, verify_response(ans.resp)) IN
                        [self |-> r.self, cls |-> cls, out |-> r.out, cloud |-> ans.cloud,
                         calls |-> Append(p.calls,
                                          Call(ap_claim_request(a, self, org_id), ans.resp))]
                        : ans \in CloudClaim(p.cloud, ap_claim_request(a, self, org_id),
                                             org_id) }
                 : p \in ApInventoryProbeRuns(self, a.org_id, c, a) }

ApClaimRuns(self, cls, org_id, c, a) ==
    UNION { IF p.out.raised # "no"
            THEN { [self |-> self, cls |-> cls, out |-> p.out, cloud |-> p.cloud,
                    calls |-> p.calls] }
            ELSE IF p.out.value.val
            THEN { [self |-> self, cls |-> cls, out |-> Ok(PyNone), cloud |-> p.cloud,
                    calls |-> p.calls] }
            ELSE IF self.claim_code = None
            THEN { [self |-> self, cls |-> cls, out |-> Raise("Exception"),
                    cloud |-> p.cloud, calls |-> p.calls] }
            ELSE { LET r == ap_claim_adopt(self, verify_response(ans.resp)) IN
                   [self |-> r.self, cls |-> cls, out |-> r.out, cloud |-> ans.cloud,
                    calls |-> Append(p.calls, Call(ap_claim_request(a, self, org_id), ans.resp))]
                   : ans \in CloudClaim(p.cloud, ap_claim_request(a, self, org_id), org_id) }
            : p \in ApInventoryProbeRuns(self, a.org_id, c, a) }

\* Python truth of a string attribute
Truthy(v) == v # None /\ v # ""

\* the payload AP.provision builds before it probes
ap_provision(self, cls, ap_name) ==
    LET b1 == [name |-> ap_name, site_id |-> self.site_id]
        b2 == AddIf(b1, "id" \in DOMAIN cls.map, "map_id", Attr(cls.map, "id", None))
        b3 == AddIf(b2, Truthy(self.height), "height", self.height)
    IN  AddIf(b3, Truthy(self.orientation), "orientation", self.orientation)

\* AP.provision once the PUT returned put: [self, out]
ap_provision_adopt(self, put) ==
    IF put.raised # "no" THEN [self |-> self, out |-> put]
    ELSE IF put.value.kind # "dict" THEN [self |-> self, out |-> Raise("TypeError")]
    ELSE ap_adopt_device(self, put.value.val)

ap_provision_request(a, self, body) ==
    api_request_body(a, "PUT", <<"installer", "orgs", a.org_id, "devices", self.mac>>,
                     PyDict(body))

\* a variant that submits the PUT whatever the probe reports
ApProvisionRuns_always(self, cls, ap_name, c, a) ==
    UNION { IF p.out.raised # "no" THEN { p }
            ELSE { LET req == ap_provision_request(a, p.self, ap_provision(self, cls, ap_name))
                       r == ap_provision_adopt(p.self, verify_response(ans.resp))
                   IN  [self |-> r.self, cls |-> p.cls, out |-> r.out, cloud |-> ans.cloud,
                        calls |-> Append(p.calls, Call(req, ans.resp))]
                   : ans \in CloudProvision(p.cloud,
                                ap_provision_request(a, p.self, ap_provision(self, cls, ap_name)),
                                a.org_id, self.mac) }
            : p \in ApSiteProbeRuns(self, cls, c, a) }

\* AP.provision(ap_name)
ApProvisionRuns(self, cls, ap_name, c, a) ==
    UNION { IF p.out.raised # "no" THEN { p }
            ELSE IF p.out.value.val THEN { [p EXCEPT !.out = Ok(PyNone)] }
            ELSE { LET req == ap_provision_request(a, p.self, ap_provision(self, cls, ap_name))
                       r == ap_provision_adopt(p.self, verify_response(ans.resp))
                   IN  [self |-> r.self, cls |-> p.cls, out |-> r.out, cloud |-> ans.cloud,
                        calls |-> Append(p.calls, Call(req, ans.resp))]
                   : ans \in CloudProvision(p.cloud,
                                ap_provision_request(a, p.self, ap_provision(self, cls, ap_name)),
                                a.org_id, self.mac) }
            : p \in ApSiteProbeRuns(self, cls, c, a) }

\* the assignments configure_radios makes to radio_configs['radio_config'],
\* in order: [cls, out]; a missing configuration key stops them
ap_radio_configs(cls, cfg) ==
    LET rc0 == cls.radio_configs.radio_config
        With(rc) == [cls EXCEPT !.radio_configs.radio_config = rc]
        rc1 == SetAttr(rc0, "band_24", EmptyDict)
    IN  IF "24" \notin DOMAIN cfg.ap \/ "5" \notin DOMAIN cfg.ap
        THEN [cls |-> With(IF "24" \in DOMAIN cfg.ap
                           THEN SetAttr(SetAttr(rc0, "band_24",
                                     [power |-> cfg.ap["24"].power,
                                      channel |-> cfg.ap["24"].channel]),
                                     "band_5", EmptyDict)
                           ELSE rc1),
              out |-> Raise("KeyError")]
        ELSE [cls |-> With(SetAttr(SetAttr(rc0, "band_24",
                                     [power |-> cfg.ap["24"].power,
                                      channel |-> cfg.ap["24"].channel]),
                                   "band_5",
                                     [power |-> cfg.ap["5"].power,
                                      bandwidth |-> cfg.ap["5"].bandwidth,
                                      channel |-> cfg.ap["5"].channel])),
              out |-> Ok(PyNone)]

\* configure_radios once the PUT returned put: the log lines read the radio
\* configuration of the response
ap_radios_logged(put) ==
    IF put.raised # "no" THEN put
    ELSE IF put.value.kind # "dict" THEN Raise("TypeError")
    ELSE IF "radio_config" \notin DOMAIN put.value.val THEN Raise("KeyError")
    ELSE IF \/ "band_24" \notin DOMAIN put.value.val.radio_config
            \/ "band_5" \notin DOMAIN put.value.val.radio_config
    THEN Raise("KeyError")
    ELSE Ok(PyNone)

ap_radios_request(a, self, cls) ==
    api_request_body(a, "PUT", <<"sites", self.site_id, "devices", Attr(self, "id", None)>>,
                     PyDict(cls.radio_configs))

\* a variant of configure_radios that does not look at the probe's answer
ApConfigureRadiosRuns_always(self, cls, cfg, c, a) ==
    UNION { IF p.out.raised # "no" THEN { p }
            ELSE LET rc == ap_radio_configs(p.cls, cfg) IN
                 IF rc.out.raised # "no" THEN { [p EXCEPT !.cls = rc.cls, !.out = rc.out] }
                 ELSE { [self |-> p.self, cls |-> rc.cls,
                         out |-> ap_radios_logged(verify_response(ans.resp)),
                         cloud |-> ans.cloud,
                         calls |-> Append(p.calls,
                                     Call(ap_radios_request(a, p.self, rc.cls), ans.resp))]
                        : ans \in CloudPutDevice(p.cloud, ap_radios_request(a, p.self, rc.cls),
                                                 p.self.site_id, Attr(p.self, "id", None)) }
            : p \in ApSiteProbeRuns(self, cls, c, a) }

\* AP.configure_radios()
ApConfigureRadiosRuns(self, cls, cfg, c, a) ==
    UNION { IF p.out.raised # "no" THEN { p }
            ELSE IF ~p.out.value.val THEN { [p EXCEPT !.out = Raise("Exception")] }
            ELSE LET rc == ap_radio_configs(p.cls, cfg) IN
                 IF rc.out.raised # "no" THEN { [p EXCEPT !.cls = rc.cls, !.out = rc.out] }
                 ELSE { [self |-> p.self, cls |-> rc.cls,
                         out |-> ap_radios_logged(verify_response(ans.resp)),
                         cloud |-> ans.cloud,
                         calls |-> Append(p.calls,
                                     Call(ap_radios_request(a, p.self, rc.cls), ans.resp))]
                        : ans \in CloudPutDevice(p.cloud, ap_radios_request(a, p.self, rc.cls),
                                                 p.self.site_id, Attr(p.self, "id", None)) }
            : p \in ApSiteProbeRuns(self, cls, c, a) }

(***************************************************************************)
(* A script that claims, provisions and configures one access point.       *)
(***************************************************************************)
ApSite == "x1"
ApNames == {"AP1"}
OtherOrg == "o_other"

AP_init(h) ==
    /\ api.class = "API"
    /\ LET r == ap_init(ApMac[h], ApSite, config, apcls) IN
       /\ ap' = IF r.out.raised = "no" THEN [ap EXCEPT ![h] = r.self] ELSE ap
       /\ apcls' = r.cls
       /\ RecordWith("AP.__init__", <<>>, r.out, r.self, [handle |-> h], <<>>)
    /\ UNCHANGED <<environ, config, actor, cloud, tok, api, site, wlan>>

AP_claim(h) ==
    /\ api.class = "API"
    /\ ap[h].class = "AP"
    /\ \E org_id \in {api.org_id, OtherOrg} :
       \E r \in ApClaimRuns(ap[h], apcls, org_id, cloud, api) :
          /\ ap' = [ap EXCEPT ![h] = r.self]
          /\ apcls' = r.cls
          /\ cloud' = r.cloud
          /\ RecordWith("AP.claim", r.calls, r.out, r.self,
                        [handle |-> h, org_id |-> org_id], <<>>)
    /\ UNCHANGED <<environ, config, actor, tok, api, site, wlan>>

AP_provision(h) ==
    /\ api.class = "API"
    /\ ap[h].class = "AP"
    /\ \E ap_name \in ApNames :
       \E r \in ApProvisionRuns(ap[h], apcls, ap_name, cloud, api) :
          /\ ap' = [ap EXCEPT ![h] = r.self]
          /\ apcls' = r.cls
          /\ cloud' = r.cloud
          /\ RecordWith("AP.provision", r.calls, r.out, r.self,
                        [handle |-> h, ap_name |-> ap_name], <<>>)
    /\ UNCHANGED <<environ, config, actor, tok, api, site, wlan>>

AP_configure_radios(h) ==
    /\ api.class = "API"
    /\ ap[h].class = "AP"
    /\ \E r \in ApConfigureRadiosRuns(ap[h], apcls, config, cloud, api) :
          /\ ap' = [ap EXCEPT ![h] = r.self]
          /\ apcls' = r.cls
          /\ cloud' = r.cloud
          /\ RecordWith("AP.configure_radios", r.calls, r.out, r.self, [handle |-> h], <<>>)
    /\ UNCHANGED <<environ, config, actor, tok, api, site, wlan>>

\* the 'ap' section of the configuration document
ApRadios ==
    ("24" :> [power |-> "8", channel |-> "6"])
    @@ ("5" :> [power |-> "12", bandwidth |-> "40", channel |-> "36"])
ApConfigs ==
    { [name |-> "AP1", claim_code |-> "CODE1", height |-> "3", orientation |-> "0"] @@ ApRadios,
      [name |-> "AP1"] @@ ApRadios,
      [name |-> "AP1", claim_code |-> ""] @@ ApRadios }

\* the inventory when the script starts: the device is unknown, claimed, or
\* claimed and assigned to the site
InitialDevices ==
    { <<>>,
      << [org |-> "o_cfg", mac |-> "m1", id |-> "d1", serial |-> "s1", model |-> "AP43",
          type |-> "ap", site_id |-> None] >>,
      << [org |-> "o_cfg", mac |-> "m1", id |-> "d1", serial |-> "s1", model |-> "AP43",
          type |-> "ap", site_id |-> ApSite, map_id |-> "map1"] >> }

InitAp ==
    /\ environ = [PATH |-> "/bin", MIST_TOKEN |-> MasterEnv]
    /\ \E ac \in ApConfigs :
          config = [site |-> [name |-> "HQ"], token |-> MasterCfg, org_id |-> "o_cfg",
                    ap |-> ac]
    /\ \E ds \in InitialDevices :
          cloud = [CloudInit EXCEPT !.sites = << [id |-> ApSite, name |-> "HQ"] >>,
                                    !.devices = ds]
    /\ tok = NoObject
    /\ api = NoObject
    /\ site = NoObject
    /\ wlan = NoObject
    /\ ap = NoAPs
    /\ apcls = APClass
    /\ actor = NoActors
    /\ last = NoOp
    /\ prev = Summary(NoOp)

NextAp ==
    \/ API_init
    \/ \E h \in {"a1"} : AP_init(h)
    \/ \E h \in {"a1"} : AP_claim(h)
    \/ \E h \in {"a1"} : AP_provision(h)
    \/ \E h \in {"a1"} : AP_configure_radios(h)

SpecAp == InitAp /\ [][NextAp]_vars

(***************************************************************************)
(* AP.unassign and AP.release: the bulk operations of the inventory.       *)
(***************************************************************************)
\* PUT orgs/<org_id>/inventory with {op, macs}: "unassign" takes the devices
\* of the organization that are assigned to a site out of their site,
\* "delete" takes the devices of the organization out of the inventory; the
\* answer lists the MACs done under success and the others under error
CloudInventoryOp(c, req, org) ==
    { [resp |-> r, cloud |-> c] : r \in ErrorResponses }
    \cup
    IF Authorized(c, req)
    THEN LET body == json_loads(req.data).value.val
             Held(m) == \E i \in DOMAIN c.devices :
                           /\ c.devices[i].org = org
                           /\ c.devices[i].mac = m
                           /\ body.op = "unassign" => c.devices[i].site_id # None
             Done(d) == d.org = org /\ Held(d.mac) /\ \E j \in DOMAIN body.macs : body.macs[j] = d.mac
             after == IF body.op = "delete"
                      THEN SelectSeq(c.devices, LAMBDA d : ~Done(d))
                      ELSE [j \in DOMAIN c.devices |->
                               IF Done(c.devices[j])
                               THEN [c.devices[j] EXCEPT !.site_id = None]
                               ELSE c.devices[j]]
         IN  { [resp |-> [status |-> 200,
                          text |-> JsonText(PyDict(
                                      [op |-> body.op,
                                       success |-> SelectSeq(body.macs, Held),
                                       error |-> SelectSeq(body.macs, LAMBDA m : ~Held(m))]))],
                cloud |-> [c EXCEPT !.devices = after]] }
    ELSE {}

ap_inventory_op_request(a, self, org_id, op) ==
    api_request_body(a, "PUT", <<"orgs", org_id, "inventory">>,
                     PyDict([op |-> op, macs |-> <<self.mac>>]))

\* unassign / release once the PUT returned put: [self, out, log]
ap_inventory_op_done(self, put) ==
    IF put.raised # "no" THEN [self |-> self, out |-> put, log |-> <<>>]
    ELSE IF put.value.kind # "dict"
    THEN [self |-> self, out |-> Raise("TypeError"), log |-> <<>>]
    ELSE IF "success" \notin DOMAIN put.value.val
    THEN [self |-> self, out |-> Raise("KeyError"), log |-> <<>>]
    ELSE IF put.value.val.success = <<>>
    THEN [self |-> self, out |-> Raise("IndexError"), log |-> <<>>]
    ELSE IF put.value.val.success[1] = self.mac
    THEN [self |-> [self EXCEPT !.site_id = None, !.site_name = None],
          out |-> Ok(PyNone), log |-> <<LogRecord("INFO")>>]
    ELSE [self |-> self, out |-> Ok(PyNone), log |-> <<LogRecord("ERROR")>>]

\* AP.unassign(org_id): [self, cls, out, cloud, calls, log]
ApUnassignRuns(self, cls, org_id, c, a) ==
    UNION { IF p.out.raised # "no"
            THEN { [self |-> p.self, cls |-> p.cls, out |-> p.out, cloud |-> p.cloud,
                    calls |-> p.calls, log |-> <<>>] }
            ELSE IF ~p.out.value.val
            THEN { [self |-> p.self, cls |-> p.cls, out |-> Ok(PyNone), cloud |-> p.cloud,
                    calls |-> p.calls, log |-> <<>>] }
            ELSE { LET req == ap_inventory_op_request(a, p.self, org_id, "unassign")
                       r == ap_inventory_op_done(p.self, verify_response(ans.resp))
                   IN  [self |-> r.self, cls |-> p.cls, out |-> r.out, cloud |-> ans.cloud,
                        calls |-> Append(p.calls, Call(req, ans.resp)), log |-> r.log]
                   : ans \in CloudInventoryOp(p.cloud,
                                ap_inventory_op_request(a, p.self, org_id, "unassign"), org_id) }
            : p \in ApSiteProbeRuns(self, cls, c, a) }

\* a variant that submits the PUT whatever the inventory probe reports
ApReleaseRuns_unprobed(self, cls, org_id, c, a) ==
    UNION { IF p.out.raised # "no"
            THEN { [self |-> self, cls |-> cls, out |-> p.out, cloud |-> p.cloud,
                    calls |-> p.calls, log |-> <<>>] }
            ELSE { LET req == ap_inventory_op_request(a, self, org_id, "delete")
                       r == ap_inventory_op_done(self, verify_response(ans.resp))
                   IN  [self |-> r.self, cls |-> cls, out |-> r.out, cloud |-> ans.cloud,
                        calls |-> Append(p.calls, Call(req, ans.resp)), log |-> r.log]
                   : ans \in CloudInventoryOp(p.cloud,
                                ap_inventory_op_request(a, self, org_id, "delete"), org_id) }
            : p \in ApInventoryProbeRuns(self, org_id, c, a) }

\* AP.release(org_id): the inventory probe names the organization of the call
ApReleaseRuns(self, cls, org_id, c, a) ==
    UNION { IF p.out.raised # "no"
            THEN { [self |-> self, cls |-> cls, out |-> p.out, cloud |-> p.cloud,
                    calls |-> p.calls, log |-> <<>>] }
            ELSE IF ~p.out.value.val
            THEN { [self |-> self, cls |-> cls, out |-> Ok(PyNone), cloud |-> p.cloud,
                    calls |-> p.calls, log |-> <<LogRecord("INFO")>>] }
            ELSE { LET req == ap_inventory_op_request(a, self, org_id, "delete")
                       r == ap_inventory_op_done(self, verify_response(ans.resp))
                   IN  [self |-> r.self, cls |-> cls, out |-> r.out, cloud |-> ans.cloud,
                        calls |-> Append(p.calls, Call(req, ans.resp)), log |-> r.log]
                   : ans \in CloudInventoryOp(p.cloud,
                                ap_inventory_op_request(a, self, org_id, "delete"), org_id) }
            : p \in ApInventoryProbeRuns(self, org_id, c, a) }

AP_unassign(h) ==
    /\ api.class = "API"
    /\ ap[h].class = "AP"
    /\ \E org_id \in {api.org_id, OtherOrg} :
       \E r \in ApUnassignRuns(ap[h], apcls, org_id, cloud, api) :
          /\ ap' = [ap EXCEPT ![h] = r.self]
          /\ apcls' = r.cls
          /\ cloud' = r.cloud
          /\ RecordWith("AP.unassign", r.calls, r.out, r.self,
                        [handle |-> h, org_id |-> org_id, before |-> ap[h]], r.log)
    /\ UNCHANGED <<environ, config, actor, tok, api, site, wlan>>

AP_release(h) ==
    /\ api.class = "API"
    /\ ap[h].class = "AP"
    /\ \E org_id \in {api.org_id, OtherOrg} :
       \E r \in ApReleaseRuns(ap[h], apcls, org_id, cloud, api) :
          /\ ap' = [ap EXCEPT ![h] = r.self]
          /\ apcls' = r.cls
          /\ cloud' = r.cloud
          /\ RecordWith("AP.release", r.calls, r.out, r.self,
                        [handle |-> h, org_id |-> org_id, before |-> ap[h]], r.log)
    /\ UNCHANGED <<environ, config, actor, tok, api, site, wlan>>

NextInventory ==
    \/ API_init
    \/ \E h \in {"a1"} : AP_init(h)
    \/ \E h \in {"a1"} : AP_provision(h)
    \/ \E h \in {"a1"} : AP_unassign(h)
    \/ \E h \in {"a1"} : AP_release(h)

SpecInventory == InitAp /\ [][NextInventory]_vars

(***************************************************************************)
(* A script that works on two access points of the same site: one is       *)
(* already assigned and placed on a map, the other is only claimed.        *)
(***************************************************************************)
InitShared ==
    /\ environ = [PATH |-> "/bin", MIST_TOKEN |-> MasterEnv]
    /\ \E ac \in ApConfigs :
          config = [site |-> [name |-> "HQ"], token |-> MasterCfg, org_id |-> "o_cfg",
                    ap |-> ac]
    /\ cloud = [CloudInit EXCEPT
                  !.sites = << [id |-> ApSite, name |-> "HQ"] >>,
                  !.devices =
                     << [org |-> "o_cfg", mac |-> "m1", id |-> "d1", serial |-> "s1",
                         model |-> "AP43", type |-> "ap", site_id |-> ApSite,
                         map_id |-> "map1"],
                        [org |-> "o_cfg", mac |-> "m2", id |-> "d2", serial |-> "s2",
                         model |-> "AP43", type |-> "ap", site_id |-> None] >>]
    /\ tok = NoObject
    /\ api = NoObject
    /\ site = NoObject
    /\ wlan = NoObject
    /\ ap = NoAPs
    /\ apcls = APClass
    /\ actor = NoActors
    /\ last = NoOp
    /\ prev = Summary(NoOp)

NextShared ==
    \/ API_init
    \/ \E h \in ApHandles : AP_init(h)
    \/ \E h \in ApHandles : AP_provision(h)
    \/ \E h \in ApHandles : AP_configure_radios(h)

SpecShared == InitShared /\ [][NextShared]_vars

(***************************************************************************)
(* A script that only builds handles, against listings whose records hold  *)
(* more or fewer fields than the library writes itself.                    *)
(***************************************************************************)
ProbeSites ==
    { << [id |-> "x1", name |-> "HQ", timezone |-> "UTC", country_code |-> "US",
          address |-> "2 Side St", latlng |-> [lat |-> "40.7", lng |-> "-74.0"],
          rftemplate_id |-> "rf9", sitegroup_ids |-> "g9"] >>,
      << [id |-> "x1", name |-> "HQ"] >> }

ProbeWlans ==
    { << [id |-> "w1", ssid |-> "corp", band |-> "24", interface |-> "all",
          hostname_ie |-> "false", roam_mode |-> "OKC", auth |-> [type |-> "eap"],
          auth_servers |-> <<"radius9">>, rateset |-> "high"] >>,
      << [id |-> "w1", ssid |-> "corp", band |-> "24", interface |-> "all",
          hostname_ie |-> "false", auth |-> [type |-> "open"]] >>,
      << [id |-> "w1", ssid |-> "corp", interface |-> "all",
          hostname_ie |-> "false", auth |-> [type |-> "open"]] >> }

InitProbe ==
    /\ environ = [PATH |-> "/bin", MIST_TOKEN |-> MasterEnv]
    /\ config = [site |-> [name |-> "HQ"], token |-> MasterCfg, org_id |-> "o_cfg"]
    /\ \E ss \in ProbeSites, ws \in ProbeWlans :
          cloud = [CloudInit EXCEPT !.sites = ss, !.wlans = ws]
    /\ tok = NoObject
    /\ api = NoObject
    /\ site = NoObject
    /\ wlan = NoObject
    /\ ap = NoAPs
    /\ apcls = APClass
    /\ actor = NoActors
    /\ last = NoOp
    /\ prev = Summary(NoOp)

NextProbe ==
    \/ API_init
    \/ Site_init
    \/ WLAN_init

SpecProbe == InitProbe /\ [][NextProbe]_vars

(***************************************************************************)
(* Properties of the entity handles.                                       *)
(***************************************************************************)
\* C1: for a Site whose name the listing does not hold, two successive
\* create() calls return the same identifier and issue exactly one creation
\* POST to orgs/<org_id>/sites: the second call issues only the listing GET.
C1_CreateTwice ==
    /\ (last.op = "Site.create" /\ Len(last.calls) = 2) =>
          /\ Verbs(last.calls) = <<"GET", "POST">>
          /\ last.calls[2].req.path = <<"orgs", api.org_id, "sites">>
          /\ last.out.raised = "no" =>
                /\ Ident(last.out) # None
                /\ Ident(last.out) = site.site_id
    /\ (/\ prev.op = "Site.create"
        /\ prev.raised = "no"
        /\ prev.verbs = <<"GET", "POST">>
        /\ last.op = "Site.create"
        /\ last.calls[1].resp.status = 200) =>
          /\ Verbs(last.calls) = <<"GET">>
          /\ last.out = Ok(PyDict([id |-> prev.ident]))

C1_Witness ==
    /\ prev.op = "Site.create"
    /\ prev.raised = "no"
    /\ prev.verbs = <<"GET", "POST">>
    /\ last.op = "Site.create"
    /\ last.out = Ok(PyDict([id |-> EntityIds[1]]))
    /\ \E i \in DOMAIN cloud.sites :
          cloud.sites[i].id = EntityIds[1] /\ cloud.sites[i].name = site.name

\* C2: when the probe finds a WLAN with the handle's SSID, WLAN.create()
\* issues no POST and returns a value carrying the existing wlan_id.
C2_WlanCreateExisting ==
    (/\ last.op = "WLAN.create"
     /\ last.calls[1].resp.status = 200
     /\ \E i \in DOMAIN last.calls[1].resp.text.doc.val :
           last.calls[1].resp.text.doc.val[i].ssid = wlan.ssid) =>
        /\ Verbs(last.calls) = <<"GET">>
        /\ last.out.raised = "no"
        /\ last.out.value.kind = "dict"
        /\ Ident(last.out) = wlan.wlan_id

\* C3: after Site.delete() or WLAN.delete() ran on an entity the probe found,
\* the handle's site_id / wlan_id no longer holds the remote identifier,
\* whether the DELETE returned true or false.
C3_DeleteInvalidates ==
    /\ (last.op = "Site.delete" /\ Len(last.calls) = 2 /\ last.out.raised = "no") =>
          Attr(site, "site_id", None) # last.calls[2].req.path[2]
    /\ (last.op = "WLAN.delete" /\ Len(last.calls) = 2 /\ last.out.raised = "no") =>
          Attr(wlan, "wlan_id", None) # last.calls[2].req.path[4]

\* the records of a successfully answered listing that carry v under key
Listed(call, key, v) ==
    IF call.resp.status = 200
    THEN { i \in DOMAIN call.resp.text.doc.val : call.resp.text.doc.val[i][key] = v }
    ELSE {}

\* C4: when the probe finds the entity, Site.delete() and WLAN.delete() return
\* the boolean of the transport DELETE (true exactly for status 200); when the
\* probe finds no entity with the natural key they return false and issue no
\* DELETE.
C4_DeleteResult ==
    /\ (last.op = "Site.delete" /\ last.calls[1].resp.status = 200) =>
          IF Listed(last.calls[1], "name", site.name) = {}
          THEN last.calls = <<last.calls[1]>> /\ last.out = Ok(PyBool(FALSE))
          ELSE /\ Verbs(last.calls) = <<"GET", "DELETE">>
               /\ last.calls[2].req.path = <<"sites", site.site_id>>
               /\ last.out.raised = "no" =>
                     last.out.value = PyBool(last.calls[2].resp.status = 200)
    /\ (last.op = "WLAN.delete" /\ last.calls[1].resp.status = 200) =>
          IF Listed(last.calls[1], "ssid", wlan.ssid) = {}
          THEN last.calls = <<last.calls[1]>> /\ last.out = Ok(PyBool(FALSE))
          ELSE /\ Verbs(last.calls) = <<"GET", "DELETE">>
               /\ last.calls[2].req.path = <<"sites", wlan.site_id, "wlans", wlan.wlan_id>>
               /\ last.out.raised = "no" =>
                     last.out.value = PyBool(last.calls[2].resp.status = 200)

C4_Witness ==
    /\ last.op = "WLAN.delete"
    /\ Len(last.calls) = 2
    /\ last.calls[2].resp.status = 404
    /\ last.out = Ok(PyBool(FALSE))
    /\ prev.op = "Site.delete"
    /\ prev.verbs = <<"GET">>
    /\ prev.raised = "no"

(***************************************************************************)
(* Properties of the transport client and the credential manager.          *)
(***************************************************************************)
BodyVerbs == {"API.get", "API.post", "API.put"}

\* C5 (as stated): for every response with status >= 400, get, post and put
\* return None without raising; for every status below 400 they return the
\* parsed body.
C5_EveryResponse ==
    last.op \in BodyVerbs =>
        LET r == last.calls[1].resp IN
        /\ last.out.raised = "no"
        /\ r.status >= 400 => last.out.value = PyNone
        /\ r.status < 400 => last.out.value = r.text.doc

\* C5 (amended): for every response whose body is well-formed JSON, get, post
\* and put return None without raising when the status is >= 400 and the
\* parsed body when it is below 400; a body that is not JSON makes them raise
\* whatever the status.
C5_JsonResponses ==
    last.op \in BodyVerbs =>
        LET r == last.calls[1].resp IN
        /\ r.text.json /\ r.status >= 400 => last.out = Ok(PyNone)
        /\ r.text.json /\ r.status < 400 => last.out = Ok(r.text.doc)
        /\ ~r.text.json => last.out.raised = "JSONDecodeError"

C5_Witness ==
    /\ last.op = "API.put"
    /\ last.calls[1].resp.status = 400
    /\ last.calls[1].resp.text.json
    /\ last.out = Ok(PyNone)

\* C6: for every response status and body, API.delete returns a boolean
\* without raising: true exactly when the status is 200.  Stated here for the
\* responses whose body is well-formed JSON, which the claim includes.
C6_DeleteReturnsBool ==
    (last.op = "API.delete" /\ last.calls[1].resp.text.json) =>
        /\ last.out.raised = "no"
        /\ last.out.value = PyBool(last.calls[1].resp.status = 200)

\* C7: every request issued through get, post, put and delete carries
\* Authorization "Token <the ephemeral secret obtained at construction>" and
\* Content-Type application/json; the master secret is attached only to the
\* acquire and revoke calls.
C7_Headers ==
    \A i \in DOMAIN last.calls :
        LET q == last.calls[i].req IN
        IF last.op \in {"API.__init__", "API.__exit__"}
        THEN /\ q.base = TokenUrl
             /\ q.headers = Headers(last.obj.MASTER_TOKEN)
        ELSE /\ api.class = "API"
             /\ "tmp_token_key" \in DOMAIN api.mist_token
             /\ \E n \in 1..(cloud.next_token - 1) :
                   api.mist_token.tmp_token_key = TokenKeys[n]
             /\ q.headers = Headers(api.mist_token.tmp_token_key)
             /\ q.headers.Authorization.secret \notin Masters
             /\ q.headers.ContentType = "application/json"

C7_Witness ==
    /\ last.op = "API.delete"
    /\ api.session = "closed"
    /\ last.calls[1].req.headers.Authorization = Authorization(TokenKeys[1])

\* C8: revoke on a credential manager that never acquired an ephemeral
\* credential raises and issues no network call.
C8_RevokeBeforeAcquire ==
    (last.op = "Token.delete_tmp_token" /\ "tmp_token_id" \notin DOMAIN tok) =>
        /\ last.out.raised # "no"
        /\ last.calls = <<>>

C8_Witness ==
    /\ last.op = "Token.delete_tmp_token"
    /\ prev.op = "Token.get_tmp_token"
    /\ prev.raised = "ValueError"
    /\ "tmp_token_id" \notin DOMAIN tok
    /\ last.out.raised = "ValueError"

\* C9: after one successful revoke, a further revoke attempt on the same
\* credential manager raises.
C9_RevokeOneShot ==
    (/\ prev.op = "Token.delete_tmp_token"
     /\ prev.raised = "no"
     /\ last.op = "Token.delete_tmp_token") => last.out.raised # "no"

\* C10: acquire issues exactly one controller call, with the master secret; on
\* a success response it stores the ephemeral id and secret; on a non-success
\* response it raises, stores neither, and no client exists to issue calls.
C10_Acquire ==
    /\ (last.op = "API.__init__" /\ last.obj.class = "Token") =>
          LET r == last.calls[1].resp IN
          /\ Len(last.calls) = 1
          /\ last.calls[1].req = Request("POST", TokenUrl, <<>>,
                                         Headers(last.obj.MASTER_TOKEN), NoData)
          /\ last.obj.MASTER_TOKEN \in Masters
          /\ r.status = 200 =>
                /\ "tmp_token_id" \in DOMAIN last.obj
                /\ "tmp_token_key" \in DOMAIN last.obj
                /\ r.text.doc.val = [id |-> last.obj.tmp_token_id,
                                     key |-> last.obj.tmp_token_key]
          /\ r.status # 200 =>
                /\ last.out.raised # "no"
                /\ "tmp_token_id" \notin DOMAIN last.obj
                /\ "tmp_token_key" \notin DOMAIN last.obj
                /\ api = NoObject
    /\ last.op \in BodyVerbs \cup {"API.delete"} => api.class = "API"
    /\ last.out.raised # "no" /\ last.op = "API.__init__" => api = NoObject

C10_Witness ==
    /\ last.op = "API.__init__"
    /\ Len(last.calls) = 1
    /\ last.calls[1].resp.status = 404
    /\ last.out.raised = "ValueError"
    /\ api = NoObject


(***************************************************************************)
(* Properties of construction.                                             *)
(***************************************************************************)
\* C11: the master secret and the organization identifier the client uses are
\* the environment override when it is present and the configuration field
\* otherwise; with the master secret in neither, construction fails before
\* any network call.
C11_Resolution ==
    last.op = "API.__init__" =>
        /\ ("MIST_TOKEN" \notin DOMAIN environ /\ "token" \notin DOMAIN config) =>
              /\ last.out.raised # "no"
              /\ last.calls = <<>>
              /\ api = NoObject
        /\ "MIST_TOKEN" \in DOMAIN environ =>
              /\ last.obj.MASTER_TOKEN = environ.MIST_TOKEN
              /\ last.calls[1].req.headers.Authorization.secret = environ.MIST_TOKEN
        /\ ("MIST_TOKEN" \notin DOMAIN environ /\ "token" \in DOMAIN config) =>
              /\ last.obj.MASTER_TOKEN = config.token
              /\ last.calls[1].req.headers.Authorization.secret = config.token
        /\ last.out.raised = "no" =>
              /\ api.mist_token.MASTER_TOKEN = last.obj.MASTER_TOKEN
              /\ "MIST_ORG" \in DOMAIN environ => api.org_id = environ.MIST_ORG
              /\ "MIST_ORG" \notin DOMAIN environ => api.org_id = config.org_id

C11_Witness ==
    /\ last.op = "API.__init__"
    /\ last.out.raised = "no"
    /\ environ = [PATH |-> "/bin", MIST_TOKEN |-> MasterEnv, MIST_ORG |-> "o_env"]
    /\ config = [site |-> [name |-> "HQ"], token |-> MasterCfg, org_id |-> "o_cfg"]
    /\ api.org_id = "o_env"
    /\ api.mist_token.MASTER_TOKEN = MasterEnv


\* a configuration whose auth section has type t
AuthType(wc, t) == "auth" \in DOMAIN wc /\ wc.auth.type = t

\* an eap configuration with an empty auth_servers sequence
EapEmpty(wc) ==
    AuthType(wc, "eap") /\ "auth_servers" \in DOMAIN wc /\ wc.auth_servers = <<>>

\* the listing answered and holds no WLAN with the constructor's SSID
SsidAbsent(o) ==
    o.calls[1].resp.status = 200 /\ Listed(o.calls[1], "ssid", o.args.ssid) = {}

\* the listing answered and holds a WLAN with the constructor's SSID
SsidPresent(o) ==
    o.calls[1].resp.status = 200 /\ Listed(o.calls[1], "ssid", o.args.ssid) # {}

C13_EapNoServersFails ==
    (/\ last.op = "WLAN.__init__"
     /\ AuthType(last.args.wlan_config, "eap")
     /\ \/ "auth_servers" \notin DOMAIN last.args.wlan_config
        \/ last.args.wlan_config.auth_servers = <<>>
     /\ SsidAbsent(last)) =>
        last.out.raised # "no"

\* a psk configuration with an empty passphrase
PskEmpty(wc) ==
    AuthType(wc, "psk") /\ "psk" \in DOMAIN wc.auth /\ wc.auth.psk = ""

Warned(o) == \E i \in DOMAIN o.log : o.log[i].level = "WARNING"

WlanOptional ==
    {"band", "interface", "hostname_ie", "roam_mode", "auth", "auth_servers", "rateset"}

\* C17: when the listing holds a record with the handle's natural key, the
\* probe returns true without failing, whichever optional field the record
\* lacks, and every optional field present in the record is copied to the
\* handle.  Stated here for the WLAN handle.
C17_ProbeAdopts ==
    (last.op = "WLAN.__init__" /\ SsidPresent(last)) =>
        LET listing == last.calls[1].resp.text.doc.val
            rec == listing[FirstMatch(listing, "ssid", last.args.ssid)]
        IN  /\ last.out.raised = "no"
            /\ last.obj.wlan_id = rec.id
            /\ \A f \in WlanOptional \cap DOMAIN rec : last.obj[f] = rec[f]


(***************************************************************************)
(* Properties of creation and teardown.                                    *)
(***************************************************************************)
\* C18: when the remote has no site with the handle's name, Site.create()
\* issues exactly one POST to orgs/<org_id>/sites whose body holds the
\* handle's name and timezone, and afterwards site_id is the id of the POST
\* response.
C18_CreatePosts ==
    (/\ last.op = "Site.create"
     /\ last.calls[1].resp.status = 200
     /\ Listed(last.calls[1], "name", site.name) = {}) =>
        /\ Verbs(last.calls) = <<"GET", "POST">>
        /\ last.calls[2].req.base = api.mist_cloud_url
        /\ last.calls[2].req.path = <<"orgs", api.org_id, "sites">>
        /\ LET body == json_loads(last.calls[2].req.data).value.val IN
           /\ body.name = site.name
           /\ "timezone" \in DOMAIN site =>
                 "timezone" \in DOMAIN body /\ body.timezone = site.timezone
        /\ last.calls[2].resp.status = 200 =>
              /\ last.out.raised = "no"
              /\ site.site_id = last.calls[2].resp.text.doc.val.id
              /\ last.out.value = last.calls[2].resp.text.doc

C18_Witness ==
    /\ last.op = "Site.create"
    /\ Verbs(last.calls) = <<"GET", "POST">>
    /\ last.calls[2].resp.status = 200
    /\ json_loads(last.calls[2].req.data).value.val.timezone = "America/Toronto"
    /\ site.site_id = EntityIds[1]
    /\ site.timezone = "America/Toronto"


\* C19: teardown issues the revoke call for the stored ephemeral id, with the
\* master secret, and closes the session only after it; after a completed
\* teardown the controller holds no ephemeral credential of this client.
C19_TeardownRevokes ==
    /\ last.op = "API.__exit__" =>
          /\ Len(last.calls) = 1
          /\ last.calls[1].req =
                Request("DELETE", TokenUrl, <<api.mist_token.tmp_token_id>>,
                        Headers(api.mist_token.MASTER_TOKEN), NoData)
          /\ last.out.raised = "no" =>
                /\ last.calls[1].resp.status = 200
                /\ api.session = "closed"
                /\ cloud.tokens = {}
    /\ (api.class = "API" /\ api.session = "closed") =>
          \A t \in cloud.tokens :
              /\ t.id # api.mist_token.tmp_token_id
              /\ t.key # api.mist_token.tmp_token_key

C19_Witness ==
    /\ last.op = "API.__exit__"
    /\ last.out.raised = "no"
    /\ prev.op = "API.get"
    /\ api.session = "closed"
    /\ api.mist_token.tmp_token_id = TokenIds[1]
    /\ cloud.tokens = {}
    /\ cloud.next_token = 2


\* C20: when the creation POST returns a failure status (>= 400), the
\* operation does not raise and leaves the handle unchanged.  Stated here for
\* Site.create and the failure responses whose body is well-formed JSON.
C20_FailedCallNoRaise ==
    [][ (/\ last'.op = "Site.create"
         /\ Len(last'.calls) = 2
         /\ last'.calls[2].resp.status >= 400
         /\ last'.calls[2].resp.text.json) =>
            /\ last'.out.raised = "no"
            /\ site' = site ]_vars


(***************************************************************************)
(* Properties of the access point handle.                                  *)
(***************************************************************************)
\* the site's device list answered and holds no AP with the handle's MAC
NotAssigned(o) ==
    /\ o.calls[1].resp.status = 200
    /\ ApMatch(o.calls[1].resp.text.doc.val, o.obj.mac) = 0

\* the inventory of the client's organization holds the handle's MAC
Claimed(o) == HasMac(InventoryOf(cloud, api.org_id), o.obj.mac)

\* C15: for an AP that is in the organization inventory and not in the site's
\* device list, configure_radios() raises and issues no PUT, while provision()
\* issues the provisioning PUT and adopts the returned id, serial and model.
C15_ClaimedNotAssigned ==
    /\ (last.op = "AP.configure_radios" /\ NotAssigned(last) /\ Claimed(last)) =>
          /\ last.out.raised = "Exception"
          /\ Verbs(last.calls) = <<"GET">>
    /\ (last.op = "AP.provision" /\ NotAssigned(last) /\ Claimed(last)) =>
          /\ Verbs(last.calls) = <<"GET", "PUT">>
          /\ last.calls[2].req.path =
                <<"installer", "orgs", api.org_id, "devices", last.obj.mac>>
          /\ LET body == json_loads(last.calls[2].req.data).value.val IN
             /\ body.name = last.args.ap_name
             /\ body.site_id = last.obj.site_id
          /\ last.calls[2].resp.status = 200 =>
                LET dev == last.calls[2].resp.text.doc.val IN
                /\ last.out.raised = "no"
                /\ last.obj.id = dev.id
                /\ last.obj.serial = dev.serial
                /\ last.obj.model = dev.model
                /\ ap[last.args.handle] = last.obj

C15_Witness ==
    /\ last.op = "AP.provision"
    /\ prev.op = "AP.configure_radios"
    /\ prev.raised = "Exception"
    /\ prev.verbs = <<"GET">>
    /\ Verbs(last.calls) = <<"GET", "PUT">>
    /\ last.calls[2].resp.status = 200
    /\ ap["a1"].id = "d1"
    /\ \E i \in DOMAIN cloud.devices :
          cloud.devices[i].mac = "m1" /\ cloud.devices[i].site_id = ApSite


\* C16: for an AP not yet in the organization inventory, claim() submits the
\* claim code only when a non-empty claim code is available; with an absent or
\* empty claim code it raises and issues no claim POST.
C16_ClaimNeedsCode ==
    (/\ last.op = "AP.claim"
     /\ last.calls[1].resp.status = 200
     /\ ~HasMac(last.calls[1].resp.text.doc.val, last.obj.mac)) =>
        IF Truthy(last.obj.claim_code)
        THEN /\ Verbs(last.calls) = <<"GET", "POST">>
             /\ json_loads(last.calls[2].req.data).value.val = <<last.obj.claim_code>>
        ELSE /\ last.out.raised # "no"
             /\ Verbs(last.calls) = <<"GET">>


\* C21: a probe whose listing GET answers a failure status completes without
\* raising and reports the entity as not found.  Stated here for the site
\* probe as Site.delete runs it, with a failure answer that carries a JSON
\* document: the operation returns False after the single GET.
C21_FailedListingReportsAbsent ==
    (/\ last.op = "Site.delete"
     /\ Len(last.calls) >= 1
     /\ last.calls[1].req.verb = "GET"
     /\ last.calls[1].resp.status >= 400
     /\ last.calls[1].resp.text # NotJson)
        => /\ last.out = Ok(PyBool(FALSE))
           /\ Len(last.calls) = 1


ConfigureOps ==
    {"Site.configure_persist_config_on_device", "Site.configure_rf_template",
     "Site.configure_site_settings"}
ProbingOps ==
    {"Site.__init__", "Site.create", "Site.delete",
     "WLAN.__init__", "WLAN.create", "WLAN.delete"}
Mutating(call) == call.req.verb \in {"POST", "PUT", "DELETE"}
Listing(call) ==
    /\ call.req.verb = "GET"
    /\ call.req.path[Len(call.req.path)] \in {"sites", "wlans"}

C23_PayloadOmitsUnset ==
    (/\ last.op = "Site.create"
     /\ Len(last.calls) = 2
     /\ last.calls[2].req.verb = "POST")
        => LET body == json_loads(last.calls[2].req.data).value.val
           IN  \A k \in {"rftemplate_id", "sitegroup_ids"} \cap DOMAIN body : body[k] # None


NoClaimCode(o) == o.class = "AP" /\ o.claim_code = None

\* C24: a claim() call that fails for a missing claim code aborts before any
\* network call: no request at all is issued before the hard failure.
C24_NoCodeBeforeNetwork ==
    (last.op = "AP.claim" /\ NoClaimCode(last.obj) /\ last.out.raised = "Exception")
        => last.calls = <<>>

\* C24, as the code has it: claim() on a handle without a claim code issues
\* exactly one request, the inventory listing GET of the client's
\* organization, and never the claim POST; when that listing answers without
\* the AP's MAC the call raises the hard failure, and when it holds the MAC the
\* call returns without raising.
C24_NoCodeAfterProbe ==
    (last.op = "AP.claim" /\ NoClaimCode(last.obj))
        => /\ Verbs(last.calls) = <<"GET">>
           /\ last.calls[1].req.path = <<"installer", "orgs", api.org_id, "devices">>
           /\ (last.calls[1].resp.status = 200 /\ last.calls[1].resp.text # NotJson)
                 => IF HasMac(last.calls[1].resp.text.doc.val, last.obj.mac)
                    THEN last.out = Ok(PyNone)
                    ELSE last.out.raised = "Exception"

C24_Witness ==
    /\ last.op = "AP.claim"
    /\ NoClaimCode(last.obj)
    /\ last.out.raised = "Exception"
    /\ Verbs(last.calls) = <<"GET">>
    /\ last.calls[1].resp.status = 200


\* the site device listing a provision() call received, when it answered
SiteListed == last.calls[1].resp.text.doc.val

\* C25: provision() on an AP whose MAC, with type "ap", is in the site's
\* device list issues only the listing GET and no PUT, whatever name, map,
\* height and orientation are supplied; when the MAC is not in the list it
\* issues exactly one PUT, and adopts id, serial and model from the record the
\* PUT returns.
C25_ProvisionOnlyUnassigned ==
    (/\ last.op = "AP.provision"
     /\ last.calls[1].resp.status = 200
     /\ last.calls[1].resp.text # NotJson) =>
        IF ApMatch(SiteListed, last.obj.mac) # 0
        THEN Verbs(last.calls) = <<"GET">>
        ELSE /\ Verbs(last.calls) = <<"GET", "PUT">>
             /\ last.calls[2].req.path =
                   <<"installer", "orgs", api.org_id, "devices", last.obj.mac>>
             /\ last.calls[2].resp.status = 200
                   => LET dev == last.calls[2].resp.text.doc.val
                      IN  /\ last.out = Ok(PyNone)
                          /\ last.obj.id = dev.id
                          /\ last.obj.serial = dev.serial
                          /\ last.obj.model = dev.model

\* provision() found the AP assigned under another name and sent no PUT
C25_Witness ==
    /\ last.op = "AP.provision"
    /\ last.calls[1].resp.status = 200
    /\ ApMatch(SiteListed, last.obj.mac) # 0
    /\ Attr(SiteListed[ApMatch(SiteListed, last.obj.mac)], "name", None) # last.args.ap_name
    /\ Truthy(last.obj.height)
    /\ Verbs(last.calls) = <<"GET">>

\* provision() assigned the AP with one PUT and adopted the returned record
C25_WitnessAssigned ==
    /\ last.op = "AP.provision"
    /\ Verbs(last.calls) = <<"GET", "PUT">>
    /\ last.calls[2].resp.status = 200
    /\ last.obj.id = "d1"


\* the handle's local site fields were cleared by the last operation
SiteFieldsCleared == last.obj.site_id = None /\ last.obj.site_name = None
SiteFieldsKept ==
    /\ last.obj.site_id = last.args.before.site_id
    /\ last.obj.site_name = last.args.before.site_name
\* the bulk PUT of the last operation answered, and its success list echoes the MAC
Echoed(i) ==
    /\ last.calls[i].resp.status = 200
    /\ last.calls[i].resp.text.doc.val.success # <<>>
    /\ last.calls[i].resp.text.doc.val.success[1] = last.obj.mac

\* C26: unassign(org) issues the bulk 'unassign' PUT keyed by the AP's MAC
\* only when the site-assignment probe succeeds; the handle's site_id and
\* site_name are cleared exactly when the success list of the response echoes
\* the MAC, and in every other outcome (not assigned, MAC not echoed, empty
\* success list) they are unchanged and the call returns without raising.
\* Stated here for calls whose requests the controller answers with status 200.
C26_UnassignConfirmed ==
    (/\ last.op = "AP.unassign"
     /\ \A i \in DOMAIN last.calls : last.calls[i].resp.status = 200) =>
        /\ Verbs(last.calls) \in {<<"GET">>, <<"GET", "PUT">>}
        /\ Len(last.calls) = 2 =>
              /\ ApMatch(SiteListed, last.obj.mac) # 0
              /\ last.calls[2].req.path = <<"orgs", last.args.org_id, "inventory">>
              /\ json_loads(last.calls[2].req.data).value.val =
                    [op |-> "unassign", macs |-> <<last.obj.mac>>]
        /\ IF Len(last.calls) = 2 /\ Echoed(2)
           THEN SiteFieldsCleared /\ last.out = Ok(PyNone)
           ELSE SiteFieldsKept /\ last.out = Ok(PyNone)


C27_WitnessAbsent ==
    /\ last.op = "AP.release"
    /\ last.calls[1].resp.status = 200
    /\ Verbs(last.calls) = <<"GET">>
    /\ last.out = Ok(PyNone)


\* the request is addressed to an endpoint under the base URL url; the
\* credential endpoint TokenUrl lies under UrlUS
Targets(req, url) == req.base = url \/ (req.base = TokenUrl /\ url = UrlUS)

\* C28: every controller call a client issues, credential acquisition and
\* revocation included, targets the base URL selected by the region flag at
\* construction.
C28_RegionBaseUrl ==
    api.class = "API" =>
        \A i \in DOMAIN last.calls : Targets(last.calls[i].req, api.mist_cloud_url)


\* C29: revocation at shutdown is best-effort: when the revoke call made
\* during teardown fails, teardown still closes the session and completes.
C29_TeardownClosesSession ==
    (/\ last.op = "API.__exit__"
     /\ \/ last.calls = <<>>
        \/ last.calls[1].resp.status # 200)
        => /\ api.session = "closed"
           /\ last.out.raised = "no"


\* the creation calls script p issued in its create()
Posts(p) == Cardinality({ i \in DOMAIN actor[p].calls : actor[p].calls[i].req.verb = "POST" })
BothDone == \A p \in Actors : actor[p].pc = "done"
\* the two create() calls ran one after the other
OneAfterTheOther == \A p \in Actors : actor[p].alone
\* every creation call was answered with success
PostsAnswered ==
    \A p \in Actors : \A i \in DOMAIN actor[p].calls :
        actor[p].calls[i].req.verb = "POST" => actor[p].calls[i].resp.status = 200
Named(seq, name) == Cardinality({ i \in DOMAIN seq : seq[i].name = name })

C30_WitnessSequential ==
    /\ BothDone
    /\ OneAfterTheOther
    /\ Posts("p1") = 1
    /\ actor["p1"].out.raised = "no"
    /\ Verbs(actor["p2"].calls) = <<"GET">>
    /\ actor["p2"].out = Ok(PyDict([id |-> actor["p1"].self.site_id]))


\* C31: AP handles are isolated from each other: the map_id that provision()
\* sends for one AP is never a value adopted from the remote record of
\* another AP; when the PUT carries a map_id, a device record with the
\* handle's own MAC holds that map id.
C31_HandlesIsolated ==
    (last.op = "AP.provision" /\ Len(last.calls) = 2 /\ last.calls[2].resp.status = 200) =>
        LET body == json_loads(last.calls[2].req.data).value.val IN
        "map_id" \in DOMAIN body =>
            \E i \in DOMAIN cloud.devices :
                /\ cloud.devices[i].mac = last.obj.mac
                /\ Attr(cloud.devices[i], "map_id", None) = body.map_id


\* C32: claim(org) probes the inventory of the organization it submits the
\* claim to: for every org argument, the inventory GET and the claim POST of
\* one claim() call name the same organization identifier.
C32_ClaimProbesSameOrg ==
    (last.op = "AP.claim" /\ Len(last.calls) = 2) =>
        /\ last.calls[1].req.path = <<"installer", "orgs", last.args.org_id, "devices">>
        /\ last.calls[2].req.path = <<"orgs", last.args.org_id, "inventory">>


\* C33: no request is ever issued whose path embeds an unresolved (null)
\* remote identifier: every segment of the path of every call is a resolved
\* value, in particular the site_id of sites/<site_id>/setting and of
\* sites/<site_id>/devices.
C33_NoNullIdentifier ==
    \A i \in DOMAIN last.calls :
        \A j \in DOMAIN last.calls[i].req.path : last.calls[i].req.path[j] # None


\* C34: a client construction that fails leaves no unrevoked ephemeral
\* credential behind: whenever API construction raises, either no ephemeral
\* credential was acquired or the controller no longer holds it.
C34_FailedConstructionRevokes ==
    (last.op = "API.__init__" /\ last.out.raised # "no") =>
        \/ "tmp_token_id" \notin DOMAIN last.obj
        \/ \A t \in cloud.tokens : t.id # last.obj.tmp_token_id


\* the handle holds an identifier that the remote no longer lists, and the
\* remote lists no entity of the handle's name
SiteStale ==
    /\ site.class = "Site"
    /\ "site_id" \in DOMAIN site
    /\ \A i \in DOMAIN cloud.sites :
          cloud.sites[i].id # site.site_id /\ cloud.sites[i].name # site.name
WlanStale ==
    /\ wlan.class = "WLAN"
    /\ "wlan_id" \in DOMAIN wlan
    /\ \A i \in DOMAIN cloud.wlans :
          cloud.wlans[i].id # wlan.wlan_id /\ cloud.wlans[i].ssid # wlan.ssid

====
